---- MODULE Spec2Model ----
(***************************************************************************)
(* Model of the science_chatbot backend: the SQLite conversation store     *)
(* (backend/persistence.py), the chat endpoint (backend/main.py), the      *)
(* LangGraph agent (backend/agents/graph.py, state.py) and the retrieval   *)
(* tools (backend/agents/tools/wikipedia_search.py, arxiv_search.py).      *)
(***************************************************************************)
EXTENDS Integers, Sequences, FiniteSets, TLC

(***************************************************************************)
(* Bounds of the model.                                                    *)
(***************************************************************************)
MaxMsgs == 3
MaxClock == 1
MaxSteps == 4
MaxLimit == 2
MaxCalls == 3

ThreadIds == {1, 2}
Slots == {1}

Min(a, b) == IF a <= b THEN a ELSE b

(***************************************************************************)
(* Text.  A text is a pair (c, n): its identity c and its length n in      *)
(* characters; slicing s[:k] keeps the identity and cuts the length, so    *)
(* the slices the code takes at 50 and 100 characters are observable.      *)
(***************************************************************************)
EmptyStr == [c |-> "", n |-> 0]
StrOf(c, n) == IF n = 0 THEN EmptyStr ELSE [c |-> c, n |-> n]
Take(s, k) == StrOf(s.c, Min(s.n, k))

PreviewLimit == 100
ChatPreviewLimit == 50

\* the preview stored as it is given
StoredPreviewWhole(preview) == preview

\* preview[:100] if preview else ""
StoredPreview(preview) == IF preview = EmptyStr THEN EmptyStr ELSE Take(preview, PreviewLimit)

\* texts a client submits: a short one, and one longer than both slices;
\* the second one carries a keyword of the classifier, in upper case
ShortText == StrOf("What is entropy?", 16)
LongText == StrOf("A recent STUDY of entropy ...", 120)
PapersText == StrOf("Newspapers on entropy", 21)
Titles == {"Test Thread"}
ChatTitle == "New Conversation"

NoSourcesAnswer == StrOf("I couldn't find reliable sources for this question. Please try rephrasing or asking a different question.", 105)
ApologyAnswer == StrOf("I ran into an issue generating the answer. Please try again or adjust the question.", 83)
LLMAnswer == StrOf("llm answer [W1]", 200)

(***************************************************************************)
(* Messages (langchain_core.messages).  type is the class of the object;   *)
(* tool_calls exists on AIMessage only, tool_call_id on ToolMessage only   *)
(* (None stands for a missing attribute); id 0 is the id None.             *)
(***************************************************************************)
None == "None"
HumanMessage(content) == [type |-> "HumanMessage", content |-> content, tool_calls |-> <<>>, tool_call_id |-> None, id |-> 0]
AIMessage(content, tcs) == [type |-> "AIMessage", content |-> content, tool_calls |-> tcs, tool_call_id |-> None, id |-> 0]
ToolMessage(content, id) == [type |-> "ToolMessage", content |-> content, tool_calls |-> <<>>, tool_call_id |-> id, id |-> 0]
SystemMessage(content) == [type |-> "SystemMessage", content |-> content, tool_calls |-> <<>>, tool_call_id |-> None, id |-> 0]
FunctionMessage(content) == [type |-> "FunctionMessage", content |-> content, tool_calls |-> <<>>, tool_call_id |-> None, id |-> 0]

ToolCall1 == [name |-> "search_wikipedia", args |-> "entropy", id |-> "call_1", type |-> "tool_call"]
ToolCall2 == [name |-> "search_arxiv", args |-> "entropy", id |-> "call_2", type |-> "tool_call"]

\* the messages the store is called with: a user message, an answer, and
\* a message class the messages table has no role for
MsgPool == {HumanMessage(ShortText), AIMessage(LLMAnswer, <<>>), FunctionMessage(ShortText)}

RECURSIVE SeqsUpTo(_, _)
SeqsUpTo(S, n) == IF n = 0 THEN {<<>>}
                  ELSE LET shorter == SeqsUpTo(S, n - 1)
                       IN shorter \cup {Append(q, x) : q \in {r \in shorter : Len(r) = n - 1}, x \in S}

(***************************************************************************)
(* State.                                                                  *)
(*   threads   table conversation_threads: thread_id -> row, or NoThread   *)
(*   messages  table messages: a set of rows                               *)
(*   clock     the value datetime.utcnow() returns                         *)
(*   turns     the chat requests in flight, one per slot                   *)
(*   last      the call that has just returned, and what it returned       *)
(*   calls     the calls of the retrieval tools in progress, one per caller*)
(*             (fetched: the candidates a wiki_get_page request was sent   *)
(*             for, in the order of the requests)                          *)
(*   dispatched  per provider: when the last HTTP request was sent, and    *)
(*             the time between the last two                               *)
(*   request   the HTTP request that was answered last                     *)
(*   _memory_saver  the global of persistence.py: None (the empty          *)
(*             sequence) or the MemorySaver object it refers to            *)
(*   returned  what the calls of get_checkpointer returned, in their order *)
(***************************************************************************)
VARIABLES threads, messages, clock, turns, last, calls, dispatched, request,
          _memory_saver, returned

vars == <<threads, messages, clock, turns, last, calls, dispatched, request,
          _memory_saver, returned>>
net_vars == <<calls, dispatched, request>>
proc_vars == <<_memory_saver, returned>>

\* a row of conversation_threads holds the six columns and the rowid SQLite
\* gives a table without INTEGER PRIMARY KEY; of the rowids the model keeps
\* their order: the rows are numbered 1..n in the order of their rowids
NoThread == [thread_id |-> 0, title |-> "", created_at |-> 0, updated_at |-> 0,
             message_count |-> 0, preview |-> EmptyStr, rowid |-> 0]

Exists(thread_id) == threads[thread_id] # NoThread

\* SELECT ... FROM messages WHERE thread_id = ?
RowsOf(thread_id) == {r \in messages : r.thread_id = thread_id}

\* CHECK (role IN ('user', 'assistant', 'system', 'tool'))
Roles == {"user", "assistant", "system", "tool"}

\* sqlite3.connect(DATABASE_PATH) leaves PRAGMA foreign_keys at its default: off
ForeignKeys == FALSE

IdleTurn == [op |-> "", pc |-> "idle", thread_id |-> 0]

\* a returned call: its name, its thread id and what it returned; for
\* create_thread its title and preview arguments; for get_threads its limit
\* and offset and the page it returned (for get_thread_messages the messages
\* it returned); for update_thread_metadata its message_count and preview
\* arguments; for test_message_persistence the messages it saved and the
\* messages it loaded; for
\* save_messages_to_db the number of stored rows before it, the length of its
\* argument, whether the argument started with the stored conversation and
\* which INSERT of its loop raised (0: none);
\* for chat the request, whether the thread of a supplied id was stored when
\* the request came, how many messages of the thread were stored then and
\* whether reading them failed, the reply, the steps the agent ran, whether every
\* retrieval request failed, whether the language model was failing, how
\* often it was invoked and whether an invocation raised, the strategy
\* classify_question returned, how often search_wikipedia was called and
\* whether search_arxiv was, the question classify_question read and the
\* question search_information gave to the tools, each a sequence of length
\* 0 (the step has not run) or 1 (for run_agent the same, message its
\* question)
NoCall == [op |-> "none", thread_id |-> 0, ret |-> None, n_before |-> 0, n_arg |-> 0, same |-> FALSE,
           title |-> "", preview |-> EmptyStr, limit |-> 0, offset |-> 0, page |-> <<>>,
           args |-> <<>>, failed_at |-> 0, n_stored |-> 0, read_failed |-> FALSE,
           message |-> EmptyStr, new_thread |-> FALSE, known |-> FALSE, reply |-> EmptyStr, final_answer |-> EmptyStr,
           steps |-> <<>>, net_failed |-> FALSE, llm_down |-> FALSE, llm_calls |-> 0, llm_raised |-> FALSE,
           strategy |-> "", wiki_queries |-> 0, arxiv_queried |-> FALSE,
           classified |-> <<>>, searched |-> <<>>]
Call(op, thread_id, ret) == [NoCall EXCEPT !.op = op, !.thread_id = thread_id, !.ret = ret]

\* an answer to one HTTP GET: a transport failure (timeout, connection),
\* an error status, a body that does not parse, or a parsed body
TransportError == [kind |-> "transport", code |-> 0, body |-> <<>>]
Status(code) == [kind |-> "status", code |-> code, body |-> <<>>]
Malformed == [kind |-> "malformed", code |-> 200, body |-> <<>>]
Ok(body) == [kind |-> "ok", code |-> 200, body |-> body]

Callers == {1, 2}
Providers == {"Wikipedia", "arXiv"}

IdleCall == [pc |-> "idle", tool |-> "", stage |-> "", resp |-> TransportError, details |-> <<>>, attempts |-> 0,
             fetched |-> <<>>]
NoRequest == [stage |-> "", kind |-> "", code |-> 0, attempts |-> 0, result |-> <<>>]

Init ==
    /\ threads = [t \in ThreadIds |-> NoThread]
    /\ messages = {}
    /\ clock = 0
    /\ turns = [s \in Slots |-> IdleTurn]
    /\ last = NoCall
    /\ calls = [c \in Callers |-> IdleCall]
    /\ dispatched = [p \in Providers |-> [at |-> -1, gap |-> -1]]
    /\ request = NoRequest
    /\ _memory_saver = <<>>
    /\ returned = <<>>

(***************************************************************************)
(* persistence.py                                                          *)
(***************************************************************************)
\* the row create_thread inserts and returns
NewThread(thread_id, title, preview, now) ==
    [thread_id |-> thread_id, title |-> title, created_at |-> now, updated_at |-> now,
     message_count |-> 0, preview |-> StoredPreview(preview)]

\* the columns of a row: SELECT thread_id, title, created_at, updated_at,
\* message_count, preview
Columns(row) ==
    [thread_id |-> row.thread_id, title |-> row.title, created_at |-> row.created_at,
     updated_at |-> row.updated_at, message_count |-> row.message_count, preview |-> row.preview]

\* INSERT INTO conversation_threads: the new row gets the largest rowid
Inserted(dict) ==
    [thread_id |-> dict.thread_id, title |-> dict.title, created_at |-> dict.created_at,
     updated_at |-> dict.updated_at, message_count |-> dict.message_count, preview |-> dict.preview,
     rowid |-> Cardinality({t \in ThreadIds : Exists(t)}) + 1]

\* DELETE FROM conversation_threads WHERE thread_id = ?
Deleted(thread_id) ==
    [t \in ThreadIds |->
        IF t = thread_id \/ ~Exists(t) THEN NoThread
        ELSE IF Exists(thread_id) /\ threads[t].rowid > threads[thread_id].rowid
             THEN [threads[t] EXCEPT !.rowid = @ - 1]
        ELSE threads[t]]

\* INSERT OR REPLACE in place of INSERT: a stored thread is overwritten
create_thread_or_replace(thread_id, title, preview) ==
    /\ threads' = [Deleted(thread_id) EXCEPT ![thread_id] =
            [Inserted(NewThread(thread_id, title, preview, clock)) EXCEPT
                !.rowid = Cardinality({t \in ThreadIds \ {thread_id} : Exists(t)}) + 1]]
    /\ last' = [Call("create_thread", thread_id, "ok") EXCEPT !.title = title, !.preview = preview]
    /\ UNCHANGED <<messages, clock, turns, net_vars, proc_vars>>

\* INSERT fails on the PRIMARY KEY when the id is stored (sqlite3.IntegrityError)
create_thread(thread_id, title, preview) ==
    /\ IF Exists(thread_id)
       THEN /\ UNCHANGED threads
            /\ last' = [Call("create_thread", thread_id, "IntegrityError") EXCEPT
                            !.title = title, !.preview = preview]
       ELSE /\ threads' = [threads EXCEPT ![thread_id] =
                            Inserted(NewThread(thread_id, title, preview, clock))]
            /\ last' = [Call("create_thread", thread_id, "ok") EXCEPT
                            !.title = title, !.preview = preview]
    /\ UNCHANGED <<messages, clock, turns, net_vars, proc_vars>>

\* dict(row), or None (the empty sequence) when no row has the id
get_thread(thread_id) ==
    IF Exists(thread_id) THEN <<Columns(threads[thread_id])>> ELSE <<>>

\* ORDER BY updated_at ASC
OldestFirst(a, b) ==
    \/ a.updated_at < b.updated_at
    \/ a.updated_at = b.updated_at /\ a.rowid < b.rowid

\* ORDER BY updated_at DESC: does row a come before row b.  The rows are
\* scanned in the order of their rowids and sorted on (updated_at, position
\* in the scan), so rows of equal updated_at stay in rowid order
NewestFirst(a, b) ==
    \/ a.updated_at > b.updated_at
    \/ a.updated_at = b.updated_at /\ a.rowid < b.rowid

RECURSIVE Ordered(_)
Ordered(rows) ==
    IF rows = {} THEN <<>>
    ELSE LET first == CHOOSE r \in rows : \A q \in rows \ {r} : NewestFirst(r, q)
         IN <<first>> \o Ordered(rows \ {first})

\* OFFSET left out of the statement: every page is the first one
list_threads_no_offset(limit, offset) ==
    LET ordered == Ordered({threads[t] : t \in {u \in ThreadIds : Exists(u)}})
        to == IF limit < 0 THEN Len(ordered) ELSE Min(Len(ordered), limit)
    IN [k \in 1..to |-> Columns(ordered[k])]

\* SELECT ... ORDER BY updated_at DESC LIMIT ? OFFSET ?  (a negative LIMIT
\* is no limit, a negative OFFSET is 0)
list_threads(limit, offset) ==
    LET ordered == Ordered({threads[t] : t \in {u \in ThreadIds : Exists(u)}})
        skipped == IF offset < 0 THEN 0 ELSE offset
        to == IF limit < 0 THEN Len(ordered) ELSE Min(Len(ordered), skipped + limit)
    IN [k \in 1..(to - skipped) |-> Columns(ordered[skipped + k])]

\* MemorySaver(): a new object, told from every object made before it by
\* its number
MemorySaver == <<(IF _memory_saver = <<>> THEN 0 ELSE _memory_saver[1]) + 1>>

\* a new MemorySaver made by every call
get_checkpointer_fresh ==
    /\ Len(returned) < MaxCalls
    /\ _memory_saver' = MemorySaver
    /\ returned' = Append(returned, _memory_saver')
    /\ last' = Call("get_checkpointer", 0, "ok")
    /\ UNCHANGED <<threads, messages, clock, turns, net_vars>>

\* the global is set by the first call and returned by every call
get_checkpointer ==
    /\ Len(returned) < MaxCalls
    /\ _memory_saver' = IF _memory_saver = <<>> THEN MemorySaver ELSE _memory_saver
    /\ returned' = Append(returned, _memory_saver')
    /\ last' = Call("get_checkpointer", 0, "ok")
    /\ UNCHANGED <<threads, messages, clock, turns, net_vars>>

\* ON DELETE CASCADE acts only when the connection enforces foreign keys
delete_thread(thread_id) ==
    /\ threads' = Deleted(thread_id)
    /\ messages' = IF ForeignKeys THEN messages \ RowsOf(thread_id) ELSE messages
    /\ last' = Call("delete_thread", thread_id, "True")
    /\ UNCHANGED <<clock, turns, net_vars, proc_vars>>

\* an UPDATE that sets all three columns, an argument that is None written
\* as its default
UpdatedThreadsAllColumns(thread_id, message_count, preview, now) ==
    IF ~Exists(thread_id) THEN threads
    ELSE [threads EXCEPT ![thread_id] =
            [@ EXCEPT !.updated_at = now,
                      !.message_count = IF message_count # <<>> THEN message_count[1] ELSE 0,
                      !.preview = IF preview # <<>> THEN Take(preview[1], PreviewLimit) ELSE EmptyStr]]

\* the UPDATE without WHERE thread_id = ?: every stored thread is updated
UpdatedThreadsEveryRow(thread_id, message_count, preview, now) ==
    IF ~Exists(thread_id) THEN threads
    ELSE [t \in ThreadIds |->
            IF ~Exists(t) THEN NoThread
            ELSE [threads[t] EXCEPT
                      !.updated_at = now,
                      !.message_count = IF message_count # <<>> THEN message_count[1] ELSE @,
                      !.preview = IF preview # <<>> THEN Take(preview[1], PreviewLimit) ELSE @]]

\* message_count and preview are None (not supplied) or a value, given as a
\* sequence of length 0 or 1; the table after update_thread_metadata
UpdatedThreads(thread_id, message_count, preview, now) ==
    IF ~Exists(thread_id) THEN threads
    ELSE [threads EXCEPT ![thread_id] =
            [@ EXCEPT !.updated_at = now,
                      !.message_count = IF message_count # <<>> THEN message_count[1] ELSE @,
                      !.preview = IF preview # <<>> THEN Take(preview[1], PreviewLimit) ELSE @]]

update_thread_metadata(thread_id, message_count, preview) ==
    /\ threads' = UpdatedThreads(thread_id, message_count, preview, clock)
    /\ last' = [Call("update_thread_metadata", thread_id, IF Exists(thread_id) THEN "ok" ELSE None)
                    EXCEPT !.args = <<message_count, preview>>]
    /\ UNCHANGED <<messages, clock, turns, net_vars, proc_vars>>

\* msg.__class__.__name__.replace("Message", "").lower(), ai -> assistant, human -> user
RoleOf(msg) ==
    CASE msg.type = "HumanMessage" -> "user"
      [] msg.type = "AIMessage" -> "assistant"
      [] msg.type = "ToolMessage" -> "tool"
      [] msg.type = "SystemMessage" -> "system"
      [] msg.type = "FunctionMessage" -> "function"

\* the id of a tool call left out of the JSON text
JsonDumpsWithoutId(tool_calls) ==
    IF tool_calls = <<>> THEN <<>>
    ELSE <<[json |-> [i \in 1..Len(tool_calls) |->
                [name |-> tool_calls[i].name, args |-> tool_calls[i].args, id |-> None]]]>>

\* json.dumps of the list of {name, args, id}; NULL (<<>>) without tool calls
JsonDumps(tool_calls) ==
    IF tool_calls = <<>> THEN <<>>
    ELSE <<[json |-> [i \in 1..Len(tool_calls) |->
                [name |-> tool_calls[i].name, args |-> tool_calls[i].args, id |-> tool_calls[i].id]]]>>

MaxIndex(thread_id) ==
    IF RowsOf(thread_id) = {} THEN -1
    ELSE CHOOSE i \in {r.message_index : r \in RowsOf(thread_id)} :
            \A r \in RowsOf(thread_id) : r.message_index <= i

ExistingCount(thread_id) == Cardinality(RowsOf(thread_id))

\* the slice forgotten: every message of the argument is written again
NewMessagesAll(thread_id, msgs) == msgs

\* messages[existing_count:]
NewMessages(thread_id, msgs) ==
    IF ExistingCount(thread_id) >= Len(msgs) THEN <<>>
    ELSE SubSeq(msgs, ExistingCount(thread_id) + 1, Len(msgs))

\* the index counted from one past the next free one
MessageIndexGap(thread_id, idx) == MaxIndex(thread_id) + idx + 2

\* message_index = max_index + idx + 1
MessageIndex(thread_id, idx) == MaxIndex(thread_id) + idx + 1

\* the rows the loop of save_messages_to_db inserts, idx counted from 0
NewRows(thread_id, msgs, now) ==
    LET new == NewMessages(thread_id, msgs)
    IN [k \in 1..Len(new) |->
          [thread_id |-> thread_id,
           role |-> RoleOf(new[k]),
           content |-> new[k].content,
           tool_calls |-> JsonDumps(new[k].tool_calls),
           tool_call_id |-> new[k].tool_call_id,
           created_at |-> now,
           message_index |-> MessageIndex(thread_id, k - 1)]]

\* an INSERT raises on the CHECK on role, on UNIQUE (thread_id, message_index)
\* and, with foreign keys enforced, on a thread_id that has no thread row
InsertRaises(rows) ==
    \/ \E k \in 1..Len(rows) : rows[k].role \notin Roles
    \/ \E k \in 1..Len(rows) : \E r \in messages :
            r.thread_id = rows[k].thread_id /\ r.message_index = rows[k].message_index
    \/ \E j, k \in 1..Len(rows) : j # k /\ rows[j].message_index = rows[k].message_index
    \/ \E k \in 1..Len(rows) : ForeignKeys /\ ~Exists(rows[k].thread_id)

\* the first INSERT of the loop that raises, counted from 1; 0 when none does
FirstRaising(rows) ==
    LET raising == {k \in 1..Len(rows) :
                      \/ rows[k].role \notin Roles
                      \/ \E r \in messages :
                            r.thread_id = rows[k].thread_id /\ r.message_index = rows[k].message_index
                      \/ \E j \in 1..(k - 1) : rows[j].message_index = rows[k].message_index
                      \/ ForeignKeys /\ ~Exists(rows[k].thread_id)}
    IN IF raising = {} THEN 0 ELSE CHOOSE k \in raising : \A j \in raising : k <= j

\* a connection in autocommit mode (isolation_level=None): the rows inserted
\* before the INSERT that raised stay
SavedMessagesAutocommit(thread_id, msgs, now) ==
    LET rows == NewRows(thread_id, msgs, now)
        written == IF FirstRaising(rows) = 0 THEN Len(rows) ELSE FirstRaising(rows) - 1
    IN messages \cup {rows[k] : k \in 1..written}

\* the conversation written over the stored one: the rows of the thread
\* deleted and every message of the argument inserted from index 0
SavedMessagesRewritten(thread_id, msgs, now) ==
    (messages \ RowsOf(thread_id)) \cup
        {[thread_id |-> thread_id, role |-> RoleOf(msgs[k]), content |-> msgs[k].content,
          tool_calls |-> JsonDumps(msgs[k].tool_calls), tool_call_id |-> msgs[k].tool_call_id,
          created_at |-> now, message_index |-> k - 1] : k \in 1..Len(msgs)}

\* the table after save_messages_to_db: all new rows on commit, none when an
\* INSERT raised (the INSERTs of the loop are one transaction, and the
\* connection is closed without commit)
SavedMessages(thread_id, msgs, now) ==
    LET rows == NewRows(thread_id, msgs, now)
    IN IF InsertRaises(rows) THEN messages
       ELSE messages \cup {rows[k] : k \in 1..Len(rows)}

\* ORDER BY message_index DESC
RECURSIVE SortByIndexDescending(_)
SortByIndexDescending(rows) ==
    IF rows = {} THEN <<>>
    ELSE LET first == CHOOSE r \in rows : \A q \in rows : r.message_index >= q.message_index
         IN <<first>> \o SortByIndexDescending(rows \ {first})

\* ORDER BY message_index
RECURSIVE SortByIndex(_)
SortByIndex(rows) ==
    IF rows = {} THEN <<>>
    ELSE LET first == CHOOSE r \in rows : \A q \in rows : r.message_index <= q.message_index
         IN <<first>> \o SortByIndex(rows \ {first})

\* does msgs start with the conversation that is stored for the thread
StartsWithStored(thread_id, msgs) ==
    LET stored == SortByIndex(RowsOf(thread_id))
    IN /\ Len(msgs) >= Len(stored)
       /\ \A k \in 1..Len(stored) :
            /\ RoleOf(msgs[k]) = stored[k].role
            /\ msgs[k].content = stored[k].content

save_messages_to_db(thread_id, msgs) ==
    /\ messages' = SavedMessages(thread_id, msgs, clock)
    /\ last' = [NoCall EXCEPT
                !.op = "save_messages_to_db", !.thread_id = thread_id,
                !.ret = IF InsertRaises(NewRows(thread_id, msgs, clock)) THEN "raise" ELSE None,
                !.n_before = ExistingCount(thread_id), !.n_arg = Len(msgs),
                !.same = StartsWithStored(thread_id, msgs),
                !.failed_at = FirstRaising(NewRows(thread_id, msgs, clock))]
    /\ UNCHANGED <<threads, clock, turns, net_vars, proc_vars>>

\* save_messages_to_db statement by statement, for callers that run it at
\* the same time on connections of their own.  The rows of the loop, from
\* the max_index and existing_count the two SELECTs returned
RowsFrom(thread_id, msgs, now, max_index, existing_count) ==
    LET new == IF existing_count >= Len(msgs) THEN <<>>
               ELSE SubSeq(msgs, existing_count + 1, Len(msgs))
    IN [k \in 1..Len(new) |->
          [thread_id |-> thread_id,
           role |-> RoleOf(new[k]),
           content |-> new[k].content,
           tool_calls |-> JsonDumps(new[k].tool_calls),
           tool_call_id |-> new[k].tool_call_id,
           created_at |-> now,
           message_index |-> max_index + (k - 1) + 1]]

\* the write lock of the database file: held by a connection from its
\* first INSERT to its commit
Writing(s) == turns[s].pc = "inserted" /\ turns[s].rows # <<>>

\* SELECT MAX(message_index) and SELECT COUNT(*): what is committed
SaveSelect(s, thread_id, msgs) ==
    /\ turns[s].pc = "idle"
    /\ turns' = [turns EXCEPT ![s] =
            [op |-> "save_messages_to_db", pc |-> "selected", thread_id |-> thread_id,
             msgs |-> msgs, max_index |-> MaxIndex(thread_id),
             existing_count |-> ExistingCount(thread_id), rows |-> <<>>]]
    /\ UNCHANGED <<threads, messages, clock, last, net_vars, proc_vars>>

\* the INSERTs of the loop without the constraints of the table
SaveInsertUnchecked(s) ==
    /\ turns[s].pc = "selected"
    /\ \A u \in DOMAIN turns : u # s => ~Writing(u)
    /\ turns' = [turns EXCEPT ![s].pc = "inserted",
                               ![s].rows = RowsFrom(turns[s].thread_id, turns[s].msgs, clock,
                                                    turns[s].max_index, turns[s].existing_count)]
    /\ UNCHANGED <<threads, messages, clock, last, net_vars, proc_vars>>

\* the INSERTs of the loop, once no other connection is writing: the rows
\* are pending until the commit; an INSERT that raises ends the call, the
\* connection is closed and nothing of the call is written
SaveInsert(s) ==
    /\ turns[s].pc = "selected"
    /\ \A u \in DOMAIN turns : u # s => ~Writing(u)
    /\ LET rows == RowsFrom(turns[s].thread_id, turns[s].msgs, clock,
                            turns[s].max_index, turns[s].existing_count)
       IN IF InsertRaises(rows)
          THEN /\ turns' = [turns EXCEPT ![s] = IdleTurn]
               /\ last' = [NoCall EXCEPT
                            !.op = "save_messages_to_db", !.thread_id = turns[s].thread_id,
                            !.ret = "raise", !.n_before = turns[s].existing_count,
                            !.n_arg = Len(turns[s].msgs), !.failed_at = FirstRaising(rows)]
          ELSE /\ turns' = [turns EXCEPT ![s].pc = "inserted", ![s].rows = rows]
               /\ last' = last
    /\ UNCHANGED <<threads, messages, clock, net_vars, proc_vars>>

\* the first INSERT while another connection is writing, and the wait for
\* the lock timed out: sqlite3.OperationalError, nothing written
SaveBusy(s) ==
    /\ turns[s].pc = "selected"
    /\ turns[s].existing_count < Len(turns[s].msgs)
    /\ \E u \in DOMAIN turns : u # s /\ Writing(u)
    /\ turns' = [turns EXCEPT ![s] = IdleTurn]
    /\ last' = [NoCall EXCEPT
                 !.op = "save_messages_to_db", !.thread_id = turns[s].thread_id,
                 !.ret = "raise", !.n_before = turns[s].existing_count,
                 !.n_arg = Len(turns[s].msgs), !.failed_at = 1]
    /\ UNCHANGED <<threads, messages, clock, net_vars, proc_vars>>

\* conn.commit(): the pending rows are in the table
SaveCommit(s) ==
    /\ turns[s].pc = "inserted"
    /\ messages' = messages \cup {turns[s].rows[k] : k \in 1..Len(turns[s].rows)}
    /\ turns' = [turns EXCEPT ![s] = IdleTurn]
    /\ last' = [NoCall EXCEPT
                 !.op = "save_messages_to_db", !.thread_id = turns[s].thread_id,
                 !.n_before = turns[s].existing_count, !.n_arg = Len(turns[s].msgs)]
    /\ UNCHANGED <<threads, clock, net_vars, proc_vars>>

\* SELECT role, content, tool_calls, tool_call_id ... ORDER BY message_index,
\* each row turned into the message class of its role
load_messages_from_db(thread_id) ==
    LET rows == SortByIndex(RowsOf(thread_id))
        known == SelectSeq(rows, LAMBDA r : r.role \in Roles)
    IN [k \in 1..Len(known) |->
          CASE known[k].role = "user" -> HumanMessage(known[k].content)
            [] known[k].role = "assistant" ->
                 AIMessage(known[k].content,
                           IF known[k].tool_calls # <<>> THEN known[k].tool_calls[1].json ELSE <<>>)
            [] known[k].role = "tool" ->
                 ToolMessage(known[k].content,
                             IF known[k].tool_call_id # None THEN known[k].tool_call_id ELSE "")
            [] known[k].role = "system" -> SystemMessage(known[k].content)]

\* the statement without AND role IN ('user', 'assistant')
get_messages_for_display_all(thread_id) ==
    LET rows == SortByIndex(RowsOf(thread_id))
    IN [k \in 1..Len(rows) |->
          [role |-> rows[k].role, content |-> rows[k].content, created_at |-> rows[k].created_at]]

\* SELECT role, content, created_at ... AND role IN ('user', 'assistant') ORDER BY message_index
get_messages_for_display(thread_id) ==
    LET rows == SortByIndex({r \in RowsOf(thread_id) : r.role \in {"user", "assistant"}})
    IN [k \in 1..Len(rows) |->
          [role |-> rows[k].role, content |-> rows[k].content, created_at |-> rows[k].created_at]]

(***************************************************************************)
(* agents/tools: what the providers answer, and what the tools make of it  *)
(***************************************************************************)
Get(d, k, default) == IF k \in DOMAIN d THEN d[k] ELSE default

TooManyRequests == 429
Forbidden == 403

RawSnippet == StrOf("<span class=\"searchmatch\">Entropy</span> &amp; heat ", 52)
CleanedSnippet == StrOf("Entropy & heat", 14)
Extract1 == StrOf("Entropy is a scientific concept ...", 620)

\* re.sub(r"<[^>]+>", "", snippet or ""), html.unescape, strip
_clean_snippet(snippet) == IF snippet = RawSnippet THEN CleanedSnippet ELSE snippet

\* title.replace(' ', '_')
Underscored(title) == IF title = "Second law" THEN "Second_law" ELSE title

_page_url_from_title(title) ==
    IF title = "" THEN <<>> ELSE <<"https://en.wikipedia.org/wiki/", Underscored(title)>>

\* entries of data["query"]["search"]; the last one lacks every field
WikiItem1 == [title |-> "Entropy", pageid |-> "101", snippet |-> RawSnippet]
WikiItem2 == [title |-> "Second law", pageid |-> "102", snippet |-> StrOf("plain", 5)]
WikiItem3 == [ns |-> "0"]

wiki_search(resp) ==
    IF resp.kind # "ok" THEN <<>>
    ELSE [i \in 1..Len(resp.body) |->
            [title |-> Get(resp.body[i], "title", ""),
             pageid |-> Get(resp.body[i], "pageid", None),
             snippet |-> _clean_snippet(Get(resp.body[i], "snippet", EmptyStr)),
             url |-> _page_url_from_title(Get(resp.body[i], "title", "")),
             source |-> "Wikipedia"]]

\* the extract of wiki_get_page's result, "" when it returns None: no pages,
\* a page without pageid, or any failure of the request
PageExtract(resp) ==
    IF resp.kind # "ok" \/ resp.body = <<>> THEN EmptyStr
    ELSE IF Get(resp.body[1], "pageid", "-1") = "-1" THEN EmptyStr
    ELSE Get(resp.body[1], "extract", EmptyStr)

\* only the candidates whose wiki_get_page returned a page are kept
search_wikipedia_found_only(resp, details) ==
    LET candidates == wiki_search(resp)
        found == {i \in 1..Len(candidates) :
                    candidates[i].pageid # None /\ PageExtract(details[i]) # EmptyStr}
        kept == SelectSeq([i \in 1..Len(candidates) |-> i], LAMBDA i : i \in found)
    IN [k \in 1..Len(kept) |->
          [title |-> candidates[kept[k]].title,
           pageid |-> candidates[kept[k]].pageid,
           snippet |-> candidates[kept[k]].snippet,
           url |-> candidates[kept[k]].url,
           source |-> candidates[kept[k]].source,
           extract |-> PageExtract(details[kept[k]])]]

\* search_wikipedia: the candidates of wiki_search, each with the extract of
\* its own wiki_get_page (details[i] answers the fetch for candidate i)
search_wikipedia(resp, details) ==
    LET candidates == wiki_search(resp)
    IN [i \in 1..Len(candidates) |->
          [title |-> candidates[i].title,
           pageid |-> candidates[i].pageid,
           snippet |-> candidates[i].snippet,
           url |-> candidates[i].url,
           source |-> candidates[i].source,
           extract |-> IF candidates[i].pageid # None THEN PageExtract(details[i]) ELSE EmptyStr]]

\* atom:entry elements; the last one has no title
ArxivEntry1 == [title |-> "Entropy bounds", summary |-> StrOf("We study ...", 700),
                id |-> "http://arxiv.org/abs/1234.56789", authors |-> <<"A. Author", "B. Author">>]
ArxivEntry2 == [summary |-> StrOf("no title", 8)]
ArxivEntry3 == [title |-> "Entropy production", id |-> "http://arxiv.org/abs/2345.67890"]

JoinAuthors(authors) == IF authors = <<>> THEN <<"Unknown">> ELSE authors

search_arxiv(resp) ==
    IF resp.kind # "ok" THEN <<>>
    ELSE LET titled == SelectSeq(resp.body, LAMBDA e : Get(e, "title", "") # "")
         IN [i \in 1..Len(titled) |->
               [title |-> titled[i].title,
                authors |-> JoinAuthors(Get(titled[i], "authors", <<>>)),
                abstract |-> Get(titled[i], "summary", EmptyStr),
                url |-> IF Get(titled[i], "id", "") = "" THEN <<>> ELSE <<titled[i].id>>,
                source |-> "arXiv"]]

(***************************************************************************)
(* agents/state.py, agents/graph.py                                        *)
(***************************************************************************)
\* create_science_agent: the edges START -> classify -> search -> generate -> END
Nodes == {"classify", "search", "generate"}
\* an edge from classify to generate instead of the edge to search
NextNodeSkipsSearch(node) ==
    CASE node = "START" -> "classify"
      [] node = "classify" -> "generate"
      [] node = "search" -> "generate"
      [] node = "generate" -> "END"

\* an edge from generate back to search instead of the edge to END
NextNodeLoop(node) ==
    CASE node = "START" -> "classify"
      [] node = "classify" -> "search"
      [] node = "search" -> "generate"
      [] node = "generate" -> "search"

NextNode(node) ==
    CASE node = "START" -> "classify"
      [] node = "classify" -> "search"
      [] node = "search" -> "generate"
      [] node = "generate" -> "END"

\* the history of the nodes a turn ran, kept up to MaxSteps entries
Record(steps, node) == IF Len(steps) < MaxSteps THEN Append(steps, node) ELSE steps

\* the keys of AgentState: the channels of StateGraph(AgentState)
StateKeys == {"messages", "question", "search_results", "final_answer"}

DictSet(d, k, v) == [x \in DOMAIN d \cup {k} |-> IF x = k THEN v ELSE d[x]]

\* langgraph add_messages: a message without id gets a fresh one; a message
\* whose id is already in the list replaces that entry, any other is appended
RECURSIVE MergeById(_, _)
MergeById(left, right) ==
    IF right = <<>> THEN left
    ELSE LET m == Head(right)
             pos == {i \in 1..Len(left) : left[i].id = m.id}
         IN MergeById(IF pos # {} THEN [left EXCEPT ![CHOOSE i \in pos : TRUE] = m]
                                  ELSE Append(left, m),
                      Tail(right))

add_messages(left, right) ==
    MergeById(left, [i \in 1..Len(right) |->
                        IF right[i].id = 0 THEN [right[i] EXCEPT !.id = Len(left) + i] ELSE right[i]])

\* one step of the compiled graph: of the dict a node returns, the keys of
\* AgentState are written to their channels (messages through add_messages)
\* and every other key is dropped
ChannelUpdate(state, ret) ==
    [k \in DOMAIN state \cup (DOMAIN ret \cap StateKeys) |->
        IF k \notin DOMAIN ret THEN state[k]
        ELSE IF k = "messages" THEN add_messages(Get(state, "messages", <<>>), ret[k])
        ELSE ret[k]]

Keywords == {"paper", "study", "research", "publication", "arxiv", "recent"}

\* question.lower()
Lower(question) ==
    IF question.c = "A recent STUDY of entropy ..." THEN StrOf("a recent study of entropy ...", question.n)
    ELSE IF question.c = "What is entropy?" THEN StrOf("what is entropy?", question.n)
    ELSE IF question.c = "Newspapers on entropy" THEN StrOf("newspapers on entropy", question.n)
    ELSE question

\* keyword in text
Occurs(keyword, text) ==
    \/ text.c = "a recent study of entropy ..." /\ keyword \in {"recent", "study"}
    \/ text.c = "newspapers on entropy" /\ keyword = "paper"

\* the keywords looked for in the question as it was typed, not lower-cased
classify_question_case_sensitive(state) ==
    LET question == Get(state, "question", EmptyStr)
        needs_papers == \E keyword \in Keywords : Occurs(keyword, question)
    IN DictSet(state, "search_strategy", IF needs_papers THEN "papers" ELSE "general")

\* question is state.get("question", "")
classify_question(state) ==
    LET question == Get(state, "question", EmptyStr)
        needs_papers == \E keyword \in Keywords : Occurs(keyword, Lower(question))
    IN DictSet(state, "search_strategy", IF needs_papers THEN "papers" ELSE "general")

\* does search_information call search_arxiv
SearchesArxiv(state) == Get(state, "search_strategy", "general") = "papers"

\* wiki_results and arxiv_results are what the two tools returned
\* (arxiv_results stays [] when search_arxiv is not called)
search_information(state, wiki_results, arxiv_results) ==
    LET arxiv == IF SearchesArxiv(state) THEN arxiv_results ELSE <<>>
    IN DictSet(DictSet(DictSet(state, "wiki_results", wiki_results),
                       "arxiv_results", arxiv),
               "search_results", wiki_results \o arxiv)

TrimLimit == 500
\* text[:limit] + "..." if len(text) > limit else text
_trim(text) == IF text.n > TrimLimit THEN [c |-> text.c, n |-> TrimLimit + 3] ELSE text

\* the loop over arxiv_results run before the loop over wiki_results
ContextLinesPapersFirst(state) ==
    LET wiki_results == Get(state, "wiki_results", <<>>)
        arxiv_results == Get(state, "arxiv_results", <<>>)
    IN [i \in 1..Len(arxiv_results) |->
          [cite |-> <<"A", i>>, title |-> arxiv_results[i].title,
           text |-> _trim(arxiv_results[i].abstract),
           url |-> arxiv_results[i].url]]
       \o
       [i \in 1..Len(wiki_results) |->
          [cite |-> <<"W", i>>, title |-> wiki_results[i].title,
           text |-> _trim(IF wiki_results[i].extract # EmptyStr THEN wiki_results[i].extract
                          ELSE wiki_results[i].snippet),
           url |-> wiki_results[i].url]]

\* the lines of the context block, Wikipedia first
ContextLines(state) ==
    LET wiki_results == Get(state, "wiki_results", <<>>)
        arxiv_results == Get(state, "arxiv_results", <<>>)
    IN [i \in 1..Len(wiki_results) |->
          [cite |-> <<"W", i>>, title |-> wiki_results[i].title,
           text |-> _trim(IF wiki_results[i].extract # EmptyStr THEN wiki_results[i].extract
                          ELSE wiki_results[i].snippet),
           url |-> wiki_results[i].url]]
       \o
       [i \in 1..Len(arxiv_results) |->
          [cite |-> <<"A", i>>, title |-> arxiv_results[i].title,
           text |-> _trim(arxiv_results[i].abstract),
           url |-> arxiv_results[i].url]]

\* generate_answer returns before llm.ainvoke when both result lists are empty
InvokesLLM(state) ==
    Get(state, "wiki_results", <<>>) # <<>> \/ Get(state, "arxiv_results", <<>>) # <<>>

\* llm is what llm.ainvoke does when it is called: "raise", or the content
\* of its response
generate_answer(state, llm) ==
    IF ~InvokesLLM(state) THEN DictSet(state, "final_answer", NoSourcesAnswer)
    ELSE IF llm = "raise" THEN DictSet(state, "final_answer", ApologyAnswer)
    ELSE DictSet(state, "final_answer", LLMAnswer)

(***************************************************************************)
(* main.py: POST /api/chat                                                 *)
(***************************************************************************)
\* uuid4() returns an id nothing in the system refers to
Fresh(thread_id) ==
    /\ ~Exists(thread_id)
    /\ RowsOf(thread_id) = {}
    /\ \A s \in DOMAIN turns : turns[s].thread_id # thread_id

\* load_messages_from_db as chat sees it: the rows as messages, and [] when
\* the query raised (except Exception: ... return [])
LoadedMessages(thread_id, read) ==
    IF read = "raise" THEN <<>> ELSE load_messages_from_db(thread_id)

\* chat up to its await: thread_arg is req.thread_id, 0 for None.  A new
\* thread is created, the stored messages are loaded, the user message is
\* appended and the agent is invoked with {"messages": all_messages}.
\* read is what the query of load_messages_from_db does: "rows" or "raise"
ChatStartReading(s, message, thread_arg, read) ==
    /\ turns[s].pc = "idle"
    /\ \E thread_id \in ThreadIds :
         /\ IF thread_arg = 0 THEN Fresh(thread_id) ELSE thread_id = thread_arg
         /\ ExistingCount(thread_id) < MaxMsgs
         /\ threads' = IF thread_arg = 0
                        THEN [threads EXCEPT ![thread_id] =
                                Inserted(NewThread(thread_id, ChatTitle, Take(message, ChatPreviewLimit), clock))]
                        ELSE threads
         /\ LET existing_messages == LoadedMessages(thread_id, read)
                all_messages == Append(existing_messages, HumanMessage(message))
            IN turns' = [turns EXCEPT ![s] =
                    [op |-> "chat", pc |-> NextNode("START"), thread_id |-> thread_id, message |-> message,
                     new_thread |-> (thread_arg = 0), known |-> Exists(thread_id),
                     n_before |-> Len(existing_messages),
                     n_stored |-> ExistingCount(thread_id), read_failed |-> (read = "raise"),
                     state |-> ChannelUpdate(<<>>, [messages |-> all_messages]),
                     steps |-> <<>>, net_failed |-> FALSE, llm_down |-> FALSE,
                     llm_calls |-> 0, llm_raised |-> FALSE,
                     strategy |-> "", wiki_queries |-> 0, arxiv_queried |-> FALSE,
                     classified |-> <<>>, searched |-> <<>>]]
    /\ UNCHANGED <<messages, clock, last, net_vars, proc_vars>>

\* chat with a database that answers the query of load_messages_from_db
ChatStart(s, message, thread_arg) == ChatStartReading(s, message, thread_arg, "rows")

\* a transport failure raised to the caller instead of answered with []
ToolRaisesTransport(resp) == resp.kind = "transport"

\* the except clauses of wiki_search and search_arxiv return [] for every
\* failure of the request: nothing is raised to search_information
ToolRaises(resp) == FALSE

\* the reply of the except clause of chat
ErrorReply == StrOf("Error: ...", 10)

ChatError(s) ==
    [NoCall EXCEPT !.op = "chat", !.thread_id = turns[s].thread_id, !.ret = "error",
                   !.message = turns[s].message, !.new_thread = turns[s].new_thread,
                   !.known = turns[s].known,
                   !.n_before = turns[s].n_before, !.reply = ErrorReply,
                   !.n_stored = Get(turns[s], "n_stored", 0),
                   !.read_failed = Get(turns[s], "read_failed", FALSE),
                   !.steps = turns[s].steps, !.net_failed = turns[s].net_failed,
                   !.llm_down = turns[s].llm_down,
                   !.llm_calls = turns[s].llm_calls, !.llm_raised = turns[s].llm_raised,
                   !.strategy = turns[s].strategy, !.wiki_queries = turns[s].wiki_queries,
                   !.arxiv_queried = turns[s].arxiv_queried,
                   !.classified = turns[s].classified, !.searched = turns[s].searched]

Classify(s) ==
    /\ turns[s].pc = "classify"
    /\ turns' = [turns EXCEPT ![s].pc = NextNode("classify"),
                              ![s].steps = Record(@, "classify"),
                              ![s].strategy = classify_question(turns[s].state).search_strategy,
                              ![s].classified = <<Get(turns[s].state, "question", EmptyStr)>>,
                              ![s].state = ChannelUpdate(@, classify_question(@))]
    /\ UNCHANGED <<threads, messages, clock, last, net_vars, proc_vars>>

\* the search node: wiki answers wiki_search, details[i] the wiki_get_page of
\* candidate i, arxiv answers search_arxiv when it is called (the calls of
\* search_wikipedia are counted up to MaxSteps)
Search(s, wiki, details, arxiv) ==
    /\ turns[s].pc = "search"
    /\ LET state == turns[s].state
           raises == ToolRaises(wiki) \/ (SearchesArxiv(state) /\ ToolRaises(arxiv))
           ret == search_information(state, search_wikipedia(wiki, details), search_arxiv(arxiv))
           failed == wiki.kind # "ok" /\ (SearchesArxiv(state) => arxiv.kind # "ok")
       IN IF raises
          THEN /\ turns' = [turns EXCEPT ![s] = IdleTurn]
               /\ last' = [ChatError(s) EXCEPT !.steps = Record(@, "search"), !.net_failed = failed,
                                               !.wiki_queries = Min(@ + 1, MaxSteps),
                                               !.searched = <<Get(state, "question", EmptyStr)>>,
                                               !.arxiv_queried = SearchesArxiv(state)]
          ELSE /\ turns' = [turns EXCEPT ![s].pc = NextNode("search"),
                                         ![s].steps = Record(@, "search"),
                                         ![s].net_failed = failed,
                                         ![s].wiki_queries = Min(@ + 1, MaxSteps),
                                         ![s].searched = <<Get(state, "question", EmptyStr)>>,
                                         ![s].arxiv_queried = SearchesArxiv(state),
                                         ![s].state = ChannelUpdate(state, ret)]
               /\ UNCHANGED last
    /\ UNCHANGED <<threads, messages, clock, net_vars, proc_vars>>

Generate(s, llm) ==
    /\ turns[s].pc = "generate"
    /\ turns' = [turns EXCEPT ![s].pc = NextNode("generate"),
                              ![s].steps = Record(@, "generate"),
                              ![s].llm_down = (llm = "raise"),
                              ![s].llm_calls = IF InvokesLLM(turns[s].state) THEN @ + 1 ELSE @,
                              ![s].llm_raised = InvokesLLM(turns[s].state) /\ llm = "raise",
                              ![s].state = ChannelUpdate(@, generate_answer(@, llm))]
    /\ UNCHANGED <<threads, messages, clock, last, net_vars, proc_vars>>

\* chat after its await: the reply is the content of the last message of
\* the result, the messages are saved and the thread metadata updated
ChatFinish(s) ==
    /\ turns[s].pc = "END"
    /\ turns[s].op = "chat"
    /\ LET result == turns[s].state
           thread_id == turns[s].thread_id
           answer == result.messages[Len(result.messages)].content
           raises == InsertRaises(NewRows(thread_id, result.messages, clock))
       IN /\ messages' = SavedMessages(thread_id, result.messages, clock)
          /\ threads' = IF raises THEN threads
                         ELSE UpdatedThreads(thread_id, <<Len(result.messages)>>,
                                             <<Take(turns[s].message, ChatPreviewLimit)>>, clock)
          /\ last' = IF raises THEN ChatError(s)
                      ELSE [ChatError(s) EXCEPT !.ret = "echo", !.reply = answer,
                                                !.final_answer = Get(result, "final_answer", EmptyStr)]
    /\ turns' = [turns EXCEPT ![s] = IdleTurn]
    /\ UNCHANGED <<clock, net_vars, proc_vars>>

\* run_agent up to its await: the graph is invoked with a state of seven
\* keys, of which the graph takes the ones AgentState declares
RunAgentStart(s, question) ==
    /\ turns[s].pc = "idle"
    /\ LET initial_state == [messages |-> <<HumanMessage(question)>>, question |-> question,
                             search_strategy |-> "general", wiki_results |-> <<>>,
                             arxiv_results |-> <<>>, search_results |-> <<>>,
                             final_answer |-> EmptyStr]
       IN turns' = [turns EXCEPT ![s] =
                [op |-> "run_agent", pc |-> NextNode("START"), thread_id |-> 0, message |-> question,
                 new_thread |-> FALSE, known |-> FALSE, n_before |-> 0,
                 state |-> ChannelUpdate(<<>>, initial_state),
                 steps |-> <<>>, net_failed |-> FALSE, llm_down |-> FALSE,
                 llm_calls |-> 0, llm_raised |-> FALSE,
                 strategy |-> "", wiki_queries |-> 0, arxiv_queried |-> FALSE,
                 classified |-> <<>>, searched |-> <<>>]]
    /\ UNCHANGED <<threads, messages, clock, last, net_vars, proc_vars>>

\* run_agent after its await: result.get("final_answer", "No answer generated")
RunAgentFinish(s) ==
    /\ turns[s].pc = "END"
    /\ turns[s].op = "run_agent"
    /\ last' = [ChatError(s) EXCEPT
                    !.op = "run_agent", !.ret = "ok",
                    !.reply = Get(turns[s].state, "final_answer", StrOf("No answer generated", 19)),
                    !.final_answer = Get(turns[s].state, "final_answer", EmptyStr)]
    /\ turns' = [turns EXCEPT ![s] = IdleTurn]
    /\ UNCHANGED <<threads, messages, clock, net_vars, proc_vars>>

\* search_information and generate_answer called one after the other on one
\* dict, as the functions they are (no graph between them): the dict
\* generate_answer gets holds every key search_information wrote.  The call
\* is recorded with the three result lists and the items and entries the
\* providers answered with
SearchAndGenerate(history, question, strategy, wiki, details, arxiv, llm) ==
    LET state == [messages |-> Append(history, HumanMessage(question)), question |-> question,
                  search_strategy |-> strategy]
        searched == search_information(state, search_wikipedia(wiki, details), search_arxiv(arxiv))
        answered == generate_answer(searched, llm)
    IN /\ last' = [NoCall EXCEPT
                      !.op = "generate_answer", !.ret = "ok",
                      !.message = question, !.n_before = Len(history), !.strategy = strategy,
                      !.args = <<searched.wiki_results, searched.arxiv_results, searched.search_results,
                                 IF wiki.kind = "ok" THEN wiki.body ELSE <<>>,
                                 IF SearchesArxiv(state) /\ arxiv.kind = "ok" THEN arxiv.body ELSE <<>> >>,
                      !.page = ContextLines(searched),
                      !.llm_calls = IF InvokesLLM(searched) THEN 1 ELSE 0,
                      !.llm_raised = InvokesLLM(searched) /\ llm = "raise",
                      !.final_answer = answered.final_answer]
       /\ UNCHANGED <<threads, messages, clock, turns, net_vars, proc_vars>>

\* GET /api/threads: the page of list_threads, as ThreadSummary records
get_threads(limit, offset) ==
    /\ last' = [Call("get_threads", 0, "ok") EXCEPT
                    !.limit = limit, !.offset = offset, !.page = list_threads(limit, offset)]
    /\ UNCHANGED <<threads, messages, clock, turns, net_vars, proc_vars>>

\* test_message_persistence.py: additional_messages are saved after the
\* conversation that is stored (first test_messages on the new thread, then
\* test_messages + [...]), and the conversation is loaded back
test_message_persistence(thread_id, additional_messages) ==
    LET test_messages == load_messages_from_db(thread_id) \o additional_messages
    IN /\ messages' = SavedMessages(thread_id, test_messages, clock)
       /\ last' = [NoCall EXCEPT
                      !.op = "test_message_persistence", !.thread_id = thread_id,
                      !.ret = IF InsertRaises(NewRows(thread_id, test_messages, clock))
                              THEN "raise" ELSE None,
                      !.n_before = ExistingCount(thread_id), !.n_arg = Len(test_messages),
                      !.args = <<test_messages>>,
                      !.page = load_messages_from_db(thread_id)']
       /\ UNCHANGED <<threads, clock, turns, net_vars, proc_vars>>

\* GET /api/threads/{thread_id}/messages: an error for a thread that is not
\* stored, else the messages of get_messages_for_display
get_thread_messages(thread_id) ==
    /\ last' = IF get_thread(thread_id) = <<>>
               THEN Call("get_thread_messages", thread_id, "Thread not found")
               ELSE [Call("get_thread_messages", thread_id, "ok") EXCEPT
                        !.page = get_messages_for_display(thread_id)]
    /\ UNCHANGED <<threads, messages, clock, turns, net_vars, proc_vars>>

\* GET /api/threads/{thread_id}: an error for a thread that is not stored,
\* else its six columns
get_thread_endpoint(thread_id) ==
    /\ last' = IF get_thread(thread_id) = <<>>
               THEN Call("get_thread_endpoint", thread_id, "Thread not found")
               ELSE [Call("get_thread_endpoint", thread_id, "ok") EXCEPT
                        !.page = get_thread(thread_id)]
    /\ UNCHANGED <<threads, messages, clock, turns, net_vars, proc_vars>>

\* the rename written as a metadata update: SET title = ?, updated_at = ?,
\* message_count = 0
update_thread_endpoint_touching(thread_id, title) ==
    /\ IF get_thread(thread_id) = <<>>
       THEN /\ UNCHANGED threads
            /\ last' = [Call("update_thread_endpoint", thread_id, "Thread not found") EXCEPT
                            !.title = title]
       ELSE /\ threads' = [threads EXCEPT ![thread_id].title = title,
                                          ![thread_id].updated_at = clock,
                                          ![thread_id].message_count = 0]
            /\ last' = [Call("update_thread_endpoint", thread_id, "ok") EXCEPT !.title = title]
    /\ UNCHANGED <<messages, clock, turns, net_vars, proc_vars>>

\* the UPDATE run without the get_thread before it: it matches no row of a
\* thread that is not stored, and success is reported
update_thread_endpoint_unchecked(thread_id, title) ==
    /\ threads' = IF Exists(thread_id) THEN [threads EXCEPT ![thread_id].title = title] ELSE threads
    /\ last' = [Call("update_thread_endpoint", thread_id, "ok") EXCEPT !.title = title]
    /\ UNCHANGED <<messages, clock, turns, net_vars, proc_vars>>

\* PUT /api/threads/{thread_id}: an error for a thread that is not stored,
\* else UPDATE conversation_threads SET title = ? WHERE thread_id = ?
update_thread_endpoint(thread_id, title) ==
    /\ IF get_thread(thread_id) = <<>>
       THEN /\ UNCHANGED threads
            /\ last' = [Call("update_thread_endpoint", thread_id, "Thread not found") EXCEPT
                            !.title = title]
       ELSE /\ threads' = [threads EXCEPT ![thread_id].title = title]
            /\ last' = [Call("update_thread_endpoint", thread_id, "ok") EXCEPT !.title = title]
    /\ UNCHANGED <<messages, clock, turns, net_vars, proc_vars>>

\* the caller takes the result of the call that returned
Return ==
    /\ last # NoCall
    /\ last' = NoCall
    /\ UNCHANGED <<threads, messages, clock, turns, net_vars, proc_vars>>

(***************************************************************************)
(* agents/tools: the HTTP requests of search_wikipedia and search_arxiv    *)
(***************************************************************************)
\* Wikimedia bot compliance: settings.wikimedia_rps, requests per second
wikimedia_rps == 1
\* the time between two requests that rate asks for, in ticks of the clock
MinInterval == 1 \div wikimedia_rps

Provider(tool) == IF tool = "search_arxiv" THEN "arXiv" ELSE "Wikipedia"

\* a retry loop around client.get that also sends a forbidden request again
RetriesForbidden(resp, attempts) ==
    resp.kind = "status" /\ resp.code = Forbidden /\ attempts < 3

\* a retry loop around client.get answered with too many requests
RetriesTooManyRequests(resp, attempts) ==
    resp.kind = "status" /\ resp.code = TooManyRequests /\ attempts < 3

\* does the tool send the request again after this answer: each of
\* wiki_search, wiki_get_page and search_arxiv calls client.get once
Retries(resp, attempts) == FALSE

\* an except clause that lets a body that does not parse pass to the caller
RequestRaisesMalformed(resp) == resp.kind = "malformed"

\* does the function that sent the request raise on this answer: the clauses
\* except httpx.HTTPError and except Exception of wiki_search, wiki_get_page
\* and search_arxiv answer raise_for_status, resp.json(), ET.fromstring and
\* every failure of the transport
RequestRaises(resp) == FALSE

\* a caller (the search node of a turn) calls search_wikipedia or search_arxiv
CallTool(c, tool) ==
    /\ calls[c].pc = "idle"
    /\ calls' = [calls EXCEPT ![c] =
            [IdleCall EXCEPT !.pc = "send", !.tool = tool,
                             !.stage = IF tool = "search_wikipedia" THEN "wiki_search" ELSE "search_arxiv"]]
    /\ UNCHANGED <<threads, messages, clock, turns, last, dispatched, request, proc_vars>>

\* client.get sends the request; nothing delays it
Send(c) ==
    /\ calls[c].pc = "send"
    /\ calls' = [calls EXCEPT ![c].pc = "wait", ![c].attempts = @ + 1,
                              ![c].fetched = IF calls[c].stage = "wiki_get_page"
                                             THEN Append(@, Len(calls[c].details) + 1) ELSE @]
    /\ dispatched' = [dispatched EXCEPT ![Provider(calls[c].tool)] =
            [at |-> clock, gap |-> IF @.at < 0 THEN -1 ELSE clock - @.at]]
    /\ UNCHANGED <<threads, messages, clock, turns, last, request, proc_vars>>

\* the candidates whose wiki_get_page has been answered or is not needed:
\* a candidate without pageid is passed over, with a transport error
\* standing in for the answer it never gets
RECURSIVE PassOver(_, _)
PassOver(candidates, details) ==
    IF Len(details) < Len(candidates) /\ candidates[Len(details) + 1].pageid = None
    THEN PassOver(candidates, Append(details, TransportError))
    ELSE details

\* what the function that sent the request returns for the answer
\* (None of wiki_get_page is <<>>, its result the one-element sequence)
RequestResult(stage, resp) ==
    CASE stage = "wiki_search" -> wiki_search(resp)
      [] stage = "search_arxiv" -> search_arxiv(resp)
      [] stage = "wiki_get_page" ->
            IF resp.kind # "ok" \/ resp.body = <<>> \/ Get(resp.body[1], "pageid", "-1") = "-1"
            THEN <<>> ELSE <<PageExtract(resp)>>

\* the request is answered (resp), or fails
Receive(c, resp) ==
    /\ calls[c].pc = "wait"
    /\ LET call == calls[c]
       IN IF RequestRaises(resp)
          THEN /\ calls' = [calls EXCEPT ![c].pc = "raised"]
               /\ UNCHANGED request
          ELSE IF Retries(resp, call.attempts)
          THEN /\ calls' = [calls EXCEPT ![c].pc = "send"]
               /\ UNCHANGED request
          ELSE /\ request' = [stage |-> call.stage, kind |-> resp.kind, code |-> resp.code,
                              attempts |-> call.attempts, result |-> RequestResult(call.stage, resp)]
               /\ IF call.stage = "search_arxiv"
                  THEN calls' = [calls EXCEPT ![c].pc = "return", ![c].resp = resp]
                  ELSE LET primary == IF call.stage = "wiki_search" THEN resp ELSE call.resp
                           details == PassOver(wiki_search(primary),
                                               IF call.stage = "wiki_search" THEN <<>>
                                               ELSE Append(call.details, resp))
                           more == Len(details) < Len(wiki_search(primary))
                       IN calls' = [calls EXCEPT ![c] =
                               [call EXCEPT !.pc = IF more THEN "send" ELSE "return",
                                            !.stage = IF more THEN "wiki_get_page" ELSE @,
                                            !.resp = primary, !.details = details,
                                            !.attempts = 0]]
    /\ UNCHANGED <<threads, messages, clock, turns, last, dispatched, proc_vars>>

\* what the tool call returns
ToolResult(call) ==
    IF call.tool = "search_arxiv" THEN search_arxiv(call.resp)
    ELSE search_wikipedia(call.resp, call.details)

ToolReturn(c) ==
    /\ calls[c].pc = "return"
    /\ calls' = [calls EXCEPT ![c] = IdleCall]
    /\ UNCHANGED <<threads, messages, clock, turns, last, dispatched, request, proc_vars>>

\* time passes
Tick ==
    /\ clock < MaxClock
    /\ clock' = clock + 1
    /\ UNCHANGED <<threads, messages, turns, last, net_vars, proc_vars>>

(***************************************************************************)
(* The requests and provider answers of the model                          *)
(***************************************************************************)
\* Spec: every operation of the store next to chat requests, on
\* conversations of one user text
ChatTexts == {ShortText}
ChatPool == {HumanMessage(ShortText), FunctionMessage(ShortText)}
ChatConversations == SeqsUpTo(ChatPool, MaxMsgs)
StoreConversations == SeqsUpTo(MsgPool, MaxMsgs)
CountArgs == {<<>>} \cup {<<n>> : n \in 0..MaxMsgs}
StoreCountArgs == {<<>>, <<MaxMsgs>>}
PreviewArgs == {<<>>, <<ShortText>>}

\* search_information asks each tool for limit=2 results
SearchLimit == 2

WikiResponses == {TransportError, Ok(<<WikiItem1>>)}
PageResponses == {TransportError, Ok(<<[pageid |-> "101", title |-> "Entropy", extract |-> Extract1]>>)}
ArxivResponses == {TransportError, Ok(<<ArxivEntry1>>)}
LLMOutcomes == {"raise", "content"}

Next ==
    \/ /\ last = NoCall
       /\ \E t \in ThreadIds : create_thread(t, ChatTitle, ShortText)
    \/ /\ last = NoCall
       /\ \E t \in ThreadIds : delete_thread(t)
    \/ /\ last = NoCall
       /\ \E t \in ThreadIds, n \in StoreCountArgs, p \in PreviewArgs : update_thread_metadata(t, n, p)
    \/ /\ last = NoCall
       /\ \E t \in ThreadIds, msgs \in ChatConversations : save_messages_to_db(t, msgs)
    \/ /\ last = NoCall
       /\ \E s \in Slots, m \in ChatTexts, t \in ThreadIds \cup {0} : ChatStart(s, m, t)
    \/ /\ last = NoCall
       /\ \E s \in Slots : Classify(s)
    \/ /\ last = NoCall
       /\ \E s \in Slots, w \in WikiResponses, d \in [1..SearchLimit -> PageResponses], a \in ArxivResponses : Search(s, w, d, a)
    \/ /\ last = NoCall
       /\ \E s \in Slots, llm \in LLMOutcomes : Generate(s, llm)
    \/ /\ last = NoCall
       /\ \E s \in Slots : ChatFinish(s)
    \/ Return

Spec == Init /\ [][Next]_vars

\* SpecStore: the operations of the store alone, on conversations of the
\* messages of MsgPool
StoreNext ==
    \/ /\ last = NoCall
       /\ \E t \in ThreadIds, title \in Titles : create_thread(t, title, LongText)
    \/ /\ last = NoCall
       /\ \E t \in ThreadIds : delete_thread(t)
    \/ /\ last = NoCall
       /\ \E t \in ThreadIds, n \in StoreCountArgs : update_thread_metadata(t, n, <<>>)
    \/ /\ last = NoCall
       /\ \E t \in ThreadIds, msgs \in StoreConversations : save_messages_to_db(t, msgs)
    \/ Return

SpecStore == Init /\ [][StoreNext]_vars

\* SpecThreads: the thread records over time.  Threads are created with an
\* empty preview or one longer than the slice, updated with and without each
\* optional argument, deleted, and given a first message
CreatePreviews == {EmptyStr, LongText}
UpdatePreviews == {<<>>, <<LongText>>}
Limits == 0..MaxLimit
Offsets == 0..MaxLimit

ThreadsNext ==
    \/ /\ last = NoCall
       /\ \E t \in ThreadIds, title \in Titles, p \in CreatePreviews : create_thread(t, title, p)
    \/ /\ last = NoCall
       /\ \E t \in ThreadIds : delete_thread(t)
    \/ /\ last = NoCall
       /\ \E t \in ThreadIds, n \in CountArgs, p \in UpdatePreviews : update_thread_metadata(t, n, p)
    \/ /\ last = NoCall
       /\ \E t \in ThreadIds : save_messages_to_db(t, <<HumanMessage(ShortText)>>)
    \/ /\ last = NoCall
       /\ \E limit \in Limits, offset \in Offsets : get_threads(limit, offset)
    \/ last = NoCall /\ Tick
    \/ Return

SpecThreads == Init /\ [][ThreadsNext]_vars

\* SpecMsgs: the messages table.  The thread of the test holds conversations
\* of every message class: an answer with and without tool calls, a tool
\* result, a system message, and a class the table has no role for; the
\* thread is read, renamed, updated and deleted, and so is an id that was
\* never stored
TestThreads == {1}
RenameTitles == {"Renamed Thread"}
RoundTripPool == {HumanMessage(ShortText), AIMessage(LLMAnswer, <<>>),
                  AIMessage(EmptyStr, <<ToolCall1, ToolCall2>>),
                  ToolMessage(LongText, "call_1"), SystemMessage(ShortText),
                  FunctionMessage(ShortText)}

RoundTripConversations == SeqsUpTo(RoundTripPool, MaxMsgs)

AdditionalMessages(t) ==
    {msgs \in RoundTripConversations : ExistingCount(t) + Len(msgs) <= MaxMsgs}

MsgsNext ==
    \/ /\ last = NoCall
       /\ \E t \in TestThreads : create_thread(t, ChatTitle, ShortText)
    \/ /\ last = NoCall
       /\ \E t \in TestThreads : \E msgs \in AdditionalMessages(t) :
             test_message_persistence(t, msgs)
    \/ /\ last = NoCall
       /\ \E t \in ThreadIds : get_thread_messages(t)
    \/ /\ last = NoCall
       /\ \E t \in ThreadIds : get_thread_endpoint(t)
    \/ /\ last = NoCall
       /\ \E t \in ThreadIds, title \in RenameTitles : update_thread_endpoint(t, title)
    \/ /\ last = NoCall
       /\ \E t \in ThreadIds, n \in StoreCountArgs : update_thread_metadata(t, n, <<>>)
    \/ /\ last = NoCall
       /\ \E t \in TestThreads : delete_thread(t)
    \/ Return

SpecMsgs == Init /\ [][MsgsNext]_vars

\* SpecNet: the retrieval tools called by two callers at a time
NetWikiResponses == {TransportError, Status(TooManyRequests), Status(Forbidden), Malformed,
                     Ok(<<>>), Ok(<<WikiItem1>>), Ok(<<WikiItem2, WikiItem3>>),
                     Ok(<<WikiItem1, WikiItem2>>)}
NetPageResponses == {TransportError, Status(TooManyRequests), Status(Forbidden), Malformed,
                     Ok(<<>>), Ok(<<[pageid |-> "101", title |-> "Entropy"]>>),
                     Ok(<<[pageid |-> "101", title |-> "Entropy", extract |-> Extract1]>>)}
NetArxivResponses == {TransportError, Status(TooManyRequests), Status(Forbidden), Malformed,
                      Ok(<<ArxivEntry1, ArxivEntry2>>)}

Answers(stage) ==
    CASE stage = "wiki_search" -> NetWikiResponses
      [] stage = "wiki_get_page" -> NetPageResponses
      [] stage = "search_arxiv" -> NetArxivResponses
      [] OTHER -> {}

NetNext ==
    \/ \E c \in Callers, tool \in {"search_wikipedia", "search_arxiv"} : CallTool(c, tool)
    \/ \E c \in Callers : Send(c)
    \/ \E c \in Callers : \E resp \in Answers(calls[c].stage) : Receive(c, resp)
    \/ \E c \in Callers : ToolReturn(c)
    \/ Tick

SpecNet == Init /\ [][NetNext]_vars

\* SpecTurns: two chat requests in flight at a time, on the same thread or on
\* two threads, next to delete_thread and get_checkpointer.  chat awaits the agent only;
\* what it does before and after the await runs without interruption.  The
\* providers are down in these turns
TurnSlots == {1, 2}

TurnsInit ==
    /\ threads = [t \in ThreadIds |-> NoThread]
    /\ messages = {}
    /\ clock = 0
    /\ turns = [s \in TurnSlots |-> IdleTurn]
    /\ last = NoCall
    /\ calls = [c \in Callers |-> IdleCall]
    /\ dispatched = [p \in Providers |-> [at |-> -1, gap |-> -1]]
    /\ request = NoRequest
    /\ _memory_saver = <<>>
    /\ returned = <<>>

TurnsNext ==
    \/ /\ last = NoCall
       /\ \E s \in TurnSlots, m \in ChatTexts, t \in ThreadIds \cup {0} : ChatStart(s, m, t)
    \/ /\ last = NoCall
       /\ \E s \in TurnSlots : Classify(s)
    \/ /\ last = NoCall
       /\ \E s \in TurnSlots : Search(s, TransportError, [i \in 1..SearchLimit |-> TransportError], TransportError)
    \/ /\ last = NoCall
       /\ \E s \in TurnSlots : Generate(s, "content")
    \/ /\ last = NoCall
       /\ \E s \in TurnSlots : ChatFinish(s)
    \/ /\ last = NoCall
       /\ \E t \in ThreadIds : delete_thread(t)
    \/ last = NoCall /\ get_checkpointer
    \/ Return

SpecTurns == TurnsInit /\ [][TurnsNext]_vars

\* SpecAgent: run_agent called with a question of no keyword and with
\* questions of the vocabulary, two calls at a time
Questions == {ShortText, LongText, PapersText}

AgentNext ==
    \/ /\ last = NoCall
       /\ \E s \in TurnSlots, q \in Questions : RunAgentStart(s, q)
    \/ /\ last = NoCall
       /\ \E s \in TurnSlots : Classify(s)
    \/ /\ last = NoCall
       /\ \E s \in TurnSlots, w \in WikiResponses, d \in [1..SearchLimit -> PageResponses], a \in ArxivResponses : Search(s, w, d, a)
    \/ /\ last = NoCall
       /\ \E s \in TurnSlots, llm \in LLMOutcomes : Generate(s, llm)
    \/ /\ last = NoCall
       /\ \E s \in TurnSlots : RunAgentFinish(s)
    \/ Return

SpecAgent == TurnsInit /\ [][AgentNext]_vars

\* SpecNodes: the node functions search_information and generate_answer
\* applied to a state of either strategy and to every answer of the providers
Strategies == {"general", "papers"}
Histories == {<<>>, <<HumanMessage(ShortText), AIMessage(LLMAnswer, <<>>)>>}
NodesWikiResponses == {TransportError, Ok(<<>>), Ok(<<WikiItem1>>), Ok(<<WikiItem1, WikiItem2>>),
                       Ok(<<WikiItem2, WikiItem3>>)}
NodesArxivResponses == {TransportError, Ok(<<ArxivEntry1>>), Ok(<<ArxivEntry1, ArxivEntry2>>),
                        Ok(<<ArxivEntry3, ArxivEntry1>>)}

NodesNext ==
    \/ /\ last = NoCall
       /\ \E history \in Histories, question \in Questions, strategy \in Strategies,
             w \in NodesWikiResponses, d \in [1..SearchLimit -> PageResponses],
             a \in NodesArxivResponses, llm \in LLMOutcomes :
             SearchAndGenerate(history, question, strategy, w, d, a, llm)
    \/ Return

SpecNodes == Init /\ [][NodesNext]_vars

\* SpecSaves: two callers of save_messages_to_db on one thread, each on a
\* connection of its own, their statements interleaved
SavePool == {HumanMessage(ShortText), AIMessage(LLMAnswer, <<>>)}
SaveConversations == SeqsUpTo(SavePool, MaxMsgs) \ {<<>>}

SavesNext ==
    \/ /\ last = NoCall
       /\ \E t \in TestThreads : create_thread(t, ChatTitle, ShortText)
    \/ /\ last = NoCall
       /\ \E s \in TurnSlots, t \in TestThreads, msgs \in SaveConversations : SaveSelect(s, t, msgs)
    \/ /\ last = NoCall
       /\ \E s \in TurnSlots : SaveInsert(s)
    \/ /\ last = NoCall
       /\ \E s \in TurnSlots : SaveBusy(s)
    \/ /\ last = NoCall
       /\ \E s \in TurnSlots : SaveCommit(s)
    \/ Return

SpecSaves == TurnsInit /\ [][SavesNext]_vars

\* SpecReads: chat requests one after another, on a database whose query
\* for the messages of the thread may fail.  The providers are down
ReadOutcomes == {"rows", "raise"}

ReadsNext ==
    \/ /\ last = NoCall
       /\ \E s \in Slots, m \in ChatTexts, t \in ThreadIds \cup {0}, read \in ReadOutcomes :
             ChatStartReading(s, m, t, read)
    \/ /\ last = NoCall
       /\ \E s \in Slots : Classify(s)
    \/ /\ last = NoCall
       /\ \E s \in Slots : Search(s, TransportError, [i \in 1..SearchLimit |-> TransportError], TransportError)
    \/ /\ last = NoCall
       /\ \E s \in Slots : Generate(s, "content")
    \/ /\ last = NoCall
       /\ \E s \in Slots : ChatFinish(s)
    \/ Return

SpecReads == Init /\ [][ReadsNext]_vars

\* FairSpec: chat requests alone.  The event loop runs every coroutine that
\* is ready, and every await of a turn ends: the HTTP requests of the tools
\* have a timeout and llm.ainvoke returns or raises
TurnStep ==
    \E s \in Slots :
        \/ Classify(s)
        \/ \E w \in WikiResponses, d \in [1..SearchLimit -> PageResponses], a \in ArxivResponses :
              Search(s, w, d, a)
        \/ \E llm \in LLMOutcomes : Generate(s, llm)
        \/ ChatFinish(s)

TurnNext ==
    \/ /\ last = NoCall
       /\ \E s \in Slots, m \in ChatTexts, t \in ThreadIds \cup {0} : ChatStart(s, m, t)
    \/ last = NoCall /\ TurnStep
    \/ Return

FairSpec == Init /\ [][TurnNext]_vars /\ WF_vars(last = NoCall /\ TurnStep) /\ WF_vars(Return)

(***************************************************************************)
(* Properties                                                              *)
(***************************************************************************)
StoredSeq(thread_id) == SortByIndex(RowsOf(thread_id))

\* C1 - Idempotent append: on a thread whose stored conversation is exactly
\* S, save_messages_to_db(thread, S) writes no row, and
\* save_messages_to_db(thread, S + [m]), m a message of a role of the table,
\* writes exactly one row: m, at the previous maximum index + 1.
C1_IdempotentAppend ==
    [][last'.op = "save_messages_to_db" =>
        \A t \in {last'.thread_id} :
            LET S == load_messages_from_db(t)
            IN /\ save_messages_to_db(t, S) => messages' = messages
               /\ \A m \in MsgPool :
                    (RoleOf(m) \in Roles /\ save_messages_to_db(t, Append(S, m))) =>
                        \E r \in messages' :
                            /\ r \notin messages
                            /\ messages' = messages \cup {r}
                            /\ r.thread_id = t
                            /\ r.message_index = MaxIndex(t) + 1
                            /\ r.role = RoleOf(m)
                            /\ r.content = m.content]_vars

\* [m0, m1] is stored and save_messages_to_db(thread, [m0, m1, m2]) returned
C1_Witness ==
    /\ last.op = "save_messages_to_db"
    /\ last.ret = None
    /\ last.same
    /\ last.n_before = 2
    /\ last.n_arg = 3
    /\ {r.message_index : r \in RowsOf(last.thread_id)} = {0, 1, 2}

\* C2 - Contiguity: in every reachable state the message indices of every
\* thread id are exactly 0 .. n-1, n the number of its stored messages.
C2_Contiguity ==
    \A t \in ThreadIds :
        {r.message_index : r \in RowsOf(t)} = 0..(Cardinality(RowsOf(t)) - 1)

\* a chat turn has committed on a thread that now holds three messages
C2_Witness ==
    /\ last.op = "chat"
    /\ last.ret = "echo"
    /\ Cardinality(RowsOf(last.thread_id)) = 3

\* C3 - Message count: every thread record's message_count is the number
\* of stored messages of its thread id.
C3_MessageCount ==
    \A t \in ThreadIds :
        Exists(t) => threads[t].message_count = Cardinality(RowsOf(t))

\* C4 - Delete cascade: when delete_thread(id) has returned, the thread is
\* absent and no message of that thread id is stored.
C4_DeleteCascade ==
    last.op = "delete_thread" =>
        /\ ~Exists(last.thread_id)
        /\ RowsOf(last.thread_id) = {}
        /\ load_messages_from_db(last.thread_id) = <<>>
        /\ get_messages_for_display(last.thread_id) = <<>>

\* C5 - A completed turn persists the user message and the answer: after
\* chat returned a reply on a thread that held n messages at its start, the
\* thread holds n + 2 messages, the last two being the user message and an
\* assistant message whose content is the reply (and the final answer).
C5_TurnPersistsTwo ==
    (last.op = "chat" /\ last.ret # "error") =>
        LET stored == StoredSeq(last.thread_id)
            n == last.n_before
        IN /\ Exists(last.thread_id)
           /\ Len(stored) = n + 2
           /\ stored[n + 1].role = "user"
           /\ stored[n + 1].content = last.message
           /\ stored[n + 2].role = "assistant"
           /\ stored[n + 2].content = last.reply
           /\ last.reply = last.final_answer

\* C6 - Graceful degradation: a turn in which every retrieval request
\* failed still runs classify, search and generate, is not answered with an
\* error, and ends with a non-empty final answer.
C6_GracefulDegradation ==
    (last.op = "chat" /\ last.net_failed) =>
        /\ last.ret # "error"
        /\ last.steps = <<"classify", "search", "generate">>
        /\ last.final_answer # EmptyStr

\* a turn returned after its retrieval requests had all failed
C6_Witness ==
    /\ last.op = "chat"
    /\ last.net_failed
    /\ last.steps = <<"classify", "search", "generate">>
    /\ last.final_answer = NoSourcesAnswer

\* C7 - Synthesis failure is degraded: a turn during which the language
\* model fails ends with the apology as final answer, is not answered with
\* an error, and is persisted as the user message followed by the apology
\* as assistant message.
C7_SynthesisFailure ==
    (last.op = "chat" /\ last.llm_down) =>
        LET stored == StoredSeq(last.thread_id)
        IN /\ last.ret # "error"
           /\ last.final_answer = ApologyAnswer
           /\ Len(stored) >= 2
           /\ stored[Len(stored) - 1].role = "user"
           /\ stored[Len(stored) - 1].content = last.message
           /\ stored[Len(stored)].role = "assistant"
           /\ stored[Len(stored)].content = ApologyAnswer

\* C9 - Throttle: two consecutive requests sent to the same provider are
\* at least the configured minimum interval apart.
C9_Throttle ==
    \A p \in Providers :
        dispatched[p].gap = -1 \/ dispatched[p].gap >= MinInterval

ResultKeys(tool) ==
    IF tool = "search_arxiv" THEN {"title", "authors", "abstract", "url", "source"}
    ELSE {"title", "pageid", "snippet", "url", "source", "extract"}

\* C12 - Retrieval is total: whatever the provider answers, no call of
\* search_wikipedia or search_arxiv raises; the call returns a list of result
\* dicts with every key present, and the empty list when its search request
\* failed (transport error, error status, body that does not parse).
C12_RetrievalTotal ==
    \A c \in Callers :
        /\ calls[c].pc # "raised"
        /\ calls[c].pc = "return" =>
              LET result == ToolResult(calls[c])
              IN /\ DOMAIN result = 1..Len(result)
                 /\ \A i \in 1..Len(result) : DOMAIN result[i] = ResultKeys(calls[c].tool)
                 /\ calls[c].resp.kind # "ok" => result = <<>>

\* search_wikipedia returns a candidate that lacked every field, after a page
\* request that did not parse, and search_arxiv returns [] for such a body
C12_Witness ==
    /\ \E c \in Callers :
            /\ calls[c].pc = "return"
            /\ calls[c].tool = "search_wikipedia"
            /\ Len(ToolResult(calls[c])) = 2
            /\ ToolResult(calls[c])[2].title = ""
            /\ calls[c].details[1] = Malformed
    /\ \E c \in Callers :
            /\ calls[c].pc = "return"
            /\ calls[c].tool = "search_arxiv"
            /\ calls[c].resp = Malformed
            /\ ToolResult(calls[c]) = <<>>

\* C13 - create_thread on a stored id fails with the error of the primary
\* key (sqlite3.IntegrityError), and leaves the thread record and every
\* message as they were.
C13_CreateExisting ==
    [][\A t \in ThreadIds :
          (Exists(t) /\ last'.op = "create_thread" /\ last'.thread_id = t) =>
              /\ last'.ret = "IntegrityError"
              /\ threads' = threads
              /\ messages' = messages]_vars

\* create_thread failed on a thread that had been updated at a later time
\* and holds a message
C13_Witness ==
    /\ last.op = "create_thread"
    /\ last.ret = "IntegrityError"
    /\ RowsOf(last.thread_id) # {}
    /\ threads[last.thread_id].updated_at > threads[last.thread_id].created_at
    /\ threads[last.thread_id].message_count = 1
    /\ clock > threads[last.thread_id].created_at

\* C14 - Create/get round trip: right after a successful
\* create_thread(id, title, preview), get_thread(id) returns the record with
\* that id and title, message_count 0, created_at = updated_at (the time of
\* the call) and the first 100 characters of the preview; right after
\* delete_thread(id), and for every id without a row, get_thread(id) returns
\* None.
C14_CreateGet ==
    /\ (last.op = "create_thread" /\ last.ret = "ok") =>
            /\ Len(get_thread(last.thread_id)) = 1
            /\ LET thread == get_thread(last.thread_id)[1]
               IN /\ DOMAIN thread = {"thread_id", "title", "created_at", "updated_at",
                                      "message_count", "preview"}
                  /\ thread.thread_id = last.thread_id
                  /\ thread.title = last.title
                  /\ thread.message_count = 0
                  /\ thread.created_at = thread.updated_at
                  /\ thread.created_at = clock
                  /\ thread.preview.c = last.preview.c
                  /\ thread.preview.n = Min(last.preview.n, 100)
    /\ last.op = "delete_thread" => get_thread(last.thread_id) = <<>>
    /\ \A t \in ThreadIds : threads[t] = NoThread => get_thread(t) = <<>>

\* a thread was created at a later time, with a preview longer than 100
\* characters, next to another thread
C14_Witness ==
    /\ last.op = "create_thread"
    /\ last.ret = "ok"
    /\ last.preview.n > 100
    /\ clock > 0
    /\ \E t \in ThreadIds \ {last.thread_id} : Exists(t)
    /\ get_thread(last.thread_id)[1].preview = StrOf(LongText.c, 100)

\* the thread ids of a page
PageIds(page) == {page[i].thread_id : i \in 1..Len(page)}

C17_UpdateFrame ==
    [][last'.op = "update_thread_metadata" =>
        LET t == last'.thread_id
            message_count == last'.args[1]
            preview == last'.args[2]
        IN /\ messages' = messages
           /\ \A u \in ThreadIds \ {t} : threads'[u] = threads[u]
           /\ IF Exists(t)
              THEN /\ last'.ret # None
                   /\ threads'[t].updated_at = clock
                   /\ threads'[t].message_count =
                         IF message_count # <<>> THEN message_count[1] ELSE threads[t].message_count
                   /\ threads'[t].preview =
                         IF preview # <<>> THEN StrOf(preview[1].c, Min(preview[1].n, 100))
                         ELSE threads[t].preview
                   /\ threads'[t].title = threads[t].title
                   /\ threads'[t].created_at = threads[t].created_at
                   /\ threads'[t].thread_id = threads[t].thread_id
              ELSE /\ last'.ret = None
                   /\ threads' = threads]_vars

\* a thread with a message and message_count 2 was updated without either
\* argument, at a later time than its last update
C17_Witness ==
    /\ last.op = "update_thread_metadata"
    /\ last.ret # None
    /\ last.args = <<<<>>, <<>>>>
    /\ threads[last.thread_id].message_count = 2
    /\ threads[last.thread_id].preview # EmptyStr
    /\ threads[last.thread_id].updated_at = clock
    /\ threads[last.thread_id].created_at < clock
    /\ RowsOf(last.thread_id) # {}

\* the tool invocations of a message as (name, arguments, call id)
Invocations(msg) ==
    [i \in 1..Len(msg.tool_calls) |->
        <<msg.tool_calls[i].name, msg.tool_calls[i].args, msg.tool_calls[i].id>>]

\* C18 - Save/load round trip: after save_messages_to_db(thread, M) on a
\* thread without messages, every message of M of role user, assistant,
\* system or tool, load_messages_from_db(thread) returns as many messages as
\* M has, in the order of their indices 0, 1, ..., the i-th of the class and
\* content of M[i].
C18_SaveLoad ==
    (/\ last.op = "test_message_persistence"
     /\ last.n_before = 0
     /\ \A i \in 1..Len(last.args[1]) : RoleOf(last.args[1][i]) \in Roles) =>
        LET M == last.args[1]
            loaded == last.page
        IN /\ last.ret = None
           /\ Len(loaded) = Len(M)
           /\ \A i \in 1..Len(M) :
                 /\ loaded[i].type = M[i].type
                 /\ loaded[i].content = M[i].content
                 /\ \E r \in RowsOf(last.thread_id) :
                       r.message_index = i - 1 /\ r.content = M[i].content

\* a conversation of a system message, a user message and an answer with
\* tool calls was saved on a thread without messages and loaded
C18_Witness ==
    /\ last.op = "test_message_persistence"
    /\ last.ret = None
    /\ last.n_before = 0
    /\ Len(last.page) = 3
    /\ last.page[1].type = "SystemMessage"
    /\ last.page[2].type = "HumanMessage"
    /\ last.page[3].type = "AIMessage"
    /\ last.page[2].content # last.page[3].content

\* C19 - Tool-call payloads survive persistence: an assistant message that
\* save_messages_to_db writes is loaded back with the same list of (name,
\* arguments, call id), in the same order, and a tool-result message with the
\* same tool_call_id.
C19_ToolCalls ==
    (last.op = "test_message_persistence" /\ last.ret = None) =>
        LET M == last.args[1]
            loaded == last.page
        IN /\ Len(loaded) = Len(M)
           /\ \A i \in 1..Len(M) :
                 /\ M[i].type = "AIMessage" => Invocations(loaded[i]) = Invocations(M[i])
                 /\ M[i].type = "ToolMessage" => loaded[i].tool_call_id = M[i].tool_call_id

\* an answer with two tool calls and the result of the first call were
\* appended to a stored user message
C19_Witness ==
    /\ last.op = "test_message_persistence"
    /\ last.ret = None
    /\ last.n_before = 1
    /\ Len(last.page) = 3
    /\ Invocations(last.page[2]) = <<<<"search_wikipedia", "entropy", "call_1">>,
                                     <<"search_arxiv", "entropy", "call_2">>>>
    /\ last.page[3].type = "ToolMessage"
    /\ last.page[3].tool_call_id = "call_1"

\* the user and assistant messages of a sequence of loaded messages
RECURSIVE Visible(_)
Visible(msgs) ==
    IF msgs = <<>> THEN <<>>
    ELSE IF Head(msgs).type \in {"HumanMessage", "AIMessage"}
         THEN <<Head(msgs)>> \o Visible(Tail(msgs))
         ELSE Visible(Tail(msgs))

\* C20 - get_messages_for_display(thread) returns the stored messages of
\* the thread of role user or assistant, in the order of their indices: the
\* stored sequence without its system and tool messages.
C20_DisplayFilter ==
    (last.op = "get_thread_messages" /\ last.ret = "ok") =>
        LET visible == Visible(load_messages_from_db(last.thread_id))
        IN /\ Len(last.page) = Len(visible)
           /\ \A i \in 1..Len(last.page) :
                 /\ last.page[i].role \in {"user", "assistant"}
                 /\ last.page[i].role = RoleOf(visible[i])
                 /\ last.page[i].content = visible[i].content

\* the messages of a thread that holds a system message, a user message and
\* a tool result were asked for
C20_Witness ==
    /\ last.op = "get_thread_messages"
    /\ last.ret = "ok"
    /\ Len(last.page) = 1
    /\ {r.role : r \in RowsOf(last.thread_id)} = {"system", "user", "tool"}

\* C21 - Atomic append: when the INSERT of the k-th message of the new
\* suffix raises in save_messages_to_db (a role outside user, assistant,
\* system, tool; an index that is taken), no message of the call is stored,
\* every message stored before is unchanged, and the call raises to its
\* caller after that one attempt.
C21_AtomicAppend ==
    [][(last'.op = "save_messages_to_db" /\ last'.failed_at # 0) =>
            /\ last'.ret = "raise"
            /\ messages' = messages
            /\ threads' = threads]_vars

\* a save of two new messages after one stored message raised on the second
\* of them, and the thread still holds the one message
C21_Witness ==
    /\ last.op = "save_messages_to_db"
    /\ last.ret = "raise"
    /\ last.n_before = 1
    /\ last.n_arg = 3
    /\ last.failed_at = 2
    /\ {r.message_index : r \in RowsOf(last.thread_id)} = {0}

\* C22 - Message immutability: no operation other than delete_thread
\* changes or removes a stored message: every row of the messages table stays
\* as it is, with its role, content and index, also when save_messages_to_db
\* is given a sequence that is shorter than the stored conversation or does
\* not start with it.
C22_Immutable ==
    [][last'.op # "delete_thread" => messages \subseteq messages']_vars

\* save_messages_to_db was given three messages that do not start with the
\* two stored ones, and wrote the third after them
C22_Witness ==
    /\ last.op = "save_messages_to_db"
    /\ last.ret = None
    /\ ~last.same
    /\ last.n_before = 2
    /\ last.n_arg = 3
    /\ {r.message_index : r \in RowsOf(last.thread_id)} = {0, 1, 2}

\* the ids of the page with one thread left out
Others(page, thread_id) ==
    SelectSeq([k \in 1..Len(page) |-> page[k].thread_id], LAMBDA t : t # thread_id)

\* C23 - Isolation between threads: every step of a turn or of a store
\* operation leaves the thread record and the stored messages of every thread
\* id but its own as they are, and leaves the other threads in the order they
\* had in the list of threads, whatever turns are in flight.
C23_Isolation ==
    [][\A t \in ThreadIds :
          LET own == \/ last'.thread_id = t
                     \/ \E s \in DOMAIN turns : turns[s].pc = "idle" /\ turns'[s].thread_id = t
          IN /\ (Columns(threads[t])' # Columns(threads[t]) \/ RowsOf(t)' # RowsOf(t)) => own
             /\ own => Others(list_threads(-1, 0), t)' = Others(list_threads(-1, 0), t)]_vars

\* a turn on thread 1 has written its messages and its metadata while a turn
\* on thread 2, which holds a message, was between two steps
C23_Witness ==
    /\ last.op = "chat"
    /\ last.ret = "echo"
    /\ last.thread_id = 1
    /\ \E s \in DOMAIN turns : turns[s].pc = "generate" /\ turns[s].thread_id = 2
    /\ Exists(2)
    /\ RowsOf(2) # {}

\* the operations that read or rename a thread, or update its metadata
ReadOrRename ==
    {"get_thread_endpoint", "get_thread_messages", "update_thread_endpoint", "update_thread_metadata"}

\* C24 - Not-found: get-thread, get-messages, rename-thread and
\* update_thread_metadata, called with an id that has no thread record,
\* return an explicit absent or error result (None, "Thread not found"), do
\* not raise, and leave the stored threads and messages as they are.
C24_NotFound ==
    [][(last'.op \in ReadOrRename /\ ~Exists(last'.thread_id)) =>
            /\ last'.ret \in {None, "Thread not found"}
            /\ last'.page = <<>>
            /\ threads' = threads
            /\ messages' = messages]_vars

\* a rename of a thread that was deleted, its messages still stored, was
\* answered with the error
C24_Witness ==
    /\ last.op = "update_thread_endpoint"
    /\ last.ret = "Thread not found"
    /\ ~Exists(last.thread_id)
    /\ RowsOf(last.thread_id) # {}

\* C25 - Unknown thread: a chat request with a thread id that has no thread
\* record is answered with an error, and no message is stored for that id.
C25_UnknownThread ==
    (last.op = "chat" /\ ~last.new_thread /\ ~last.known) =>
        /\ last.ret = "error"
        /\ Cardinality(RowsOf(last.thread_id)) = last.n_before

\* C26 - Singleton: every call of get_checkpointer returns the same object,
\* and never None.
C26_Singleton ==
    \A i, j \in 1..Len(returned) :
        /\ returned[i] # <<>>
        /\ returned[i] = returned[j]

\* get_checkpointer has returned for the third time, the second and third
\* call made while a turn was in flight
C26_Witness ==
    /\ last.op = "get_checkpointer"
    /\ Len(returned) = 3
    /\ \E s \in DOMAIN turns : turns[s].pc = "search"

\* the nodes in the order of the edges from START to END
Flow == <<"classify", "search", "generate">>

\* C27 - Step ordering: a turn runs classify, then search, then generate,
\* then reaches END: at every moment the steps it has run are the first k of
\* the three, each once, the step it is at is the next one, and a turn that
\* returned has run exactly the three.
C27_StepOrder ==
    /\ \A s \in DOMAIN turns :
          turns[s].pc # "idle" =>
              \E k \in 0..Len(Flow) :
                  /\ turns[s].steps = SubSeq(Flow, 1, k)
                  /\ turns[s].pc = IF k = Len(Flow) THEN "END" ELSE Flow[k + 1]
    /\ last.op = "chat" => last.steps = Flow

\* the second turn of a thread returned after its three steps
C27_Witness ==
    /\ last.op = "chat"
    /\ last.ret = "echo"
    /\ last.n_before = 1
    /\ last.steps = Flow

\* C28 - One synthesis call: every turn that returned has invoked the
\* language model exactly once, whatever the retrieval tools returned.
C28_LLMOnce ==
    last.op = "chat" => last.llm_calls = 1

\* C29 - Provider selection: every turn calls search_wikipedia exactly once
\* (limit 2), and calls search_arxiv (limit 2) if and only if the strategy
\* classify_question returned in that turn is "papers".
C29_ProviderSelection ==
    last.op \in {"chat", "run_agent"} =>
        /\ last.wiki_queries = 1
        /\ last.arxiv_queried <=> last.strategy = "papers"

\* C30 - Classification: the classify step of a turn yields "papers" if
\* the lower-cased question contains a keyword of the vocabulary as a
\* substring and "general" otherwise, whatever the question is, and leaves
\* every key of the turn state as it was (classify_question returns its
\* argument with the strategy added).
C30_Classify ==
    [][\A s \in DOMAIN turns :
          (turns[s].pc = "classify" /\ turns'[s].pc # "classify") =>
              LET state == turns[s].state
                  question == Get(state, "question", EmptyStr)
                  returned_state == classify_question(state)
              IN /\ turns'[s].pc = "search"
                 /\ turns'[s].strategy =
                        IF \E keyword \in Keywords : Occurs(keyword, Lower(question))
                        THEN "papers" ELSE "general"
                 /\ DOMAIN returned_state = DOMAIN state \cup {"search_strategy"}
                 /\ \A k \in DOMAIN state \ {"search_strategy"} : returned_state[k] = state[k]
                 /\ DOMAIN turns'[s].state = DOMAIN state
                 /\ \A k \in DOMAIN state : turns'[s].state[k] = state[k]]_vars

\* a question with keywords in upper case and one with a keyword inside a
\* longer word have been classified as "papers", a third as "general"
C30_Witness ==
    \E s, r \in DOMAIN turns :
        /\ turns[s].pc = "search"
        /\ turns[s].message = LongText
        /\ turns[s].strategy = "papers"
        /\ turns[r].pc = "search"
        /\ turns[r].message = PapersText
        /\ turns[r].strategy = "papers"

\* C31 - The question of a turn: in a turn submitted with a message,
\* classify_question reads that message as the question and
\* search_information gives that message to the retrieval tools.
C31_QuestionIsMessage ==
    last.op = "chat" =>
        /\ last.classified = <<last.message>>
        /\ last.searched = <<last.message>>

\* C32 - Evidence order: the context block generate_answer builds holds one
\* line per result, the lines of the Wikipedia results first and the lines of
\* the arXiv results after them, each in the order of its list, the i-th
\* line of a provider carrying the citation id W<i> resp. A<i>; no two lines
\* carry the same id.  search_results holds the results in the same order.
C32_EvidenceOrder ==
    last.op = "generate_answer" =>
        LET wiki_results == last.args[1]
            arxiv_results == last.args[2]
            lines == last.page
        IN /\ Len(lines) = Len(wiki_results) + Len(arxiv_results)
           /\ \A i \in 1..Len(wiki_results) :
                 /\ lines[i].cite = <<"W", i>>
                 /\ lines[i].title = wiki_results[i].title
                 /\ lines[i].url = wiki_results[i].url
           /\ \A i \in 1..Len(arxiv_results) :
                 /\ lines[Len(wiki_results) + i].cite = <<"A", i>>
                 /\ lines[Len(wiki_results) + i].title = arxiv_results[i].title
                 /\ lines[Len(wiki_results) + i].url = arxiv_results[i].url
           /\ \A i, j \in 1..Len(lines) : i # j => lines[i].cite # lines[j].cite
           /\ last.args[3] = wiki_results \o arxiv_results

\* a block of two Wikipedia results and two arXiv results was built
C32_Witness ==
    /\ last.op = "generate_answer"
    /\ Len(last.args[1]) = 2
    /\ Len(last.args[2]) = 2
    /\ Len(last.page) = 4
    /\ last.page[2].title # last.page[1].title
    /\ last.page[4].title # last.page[3].title

\* C33 - Two-step enrichment: in a call of search_wikipedia no page request
\* is sent before the search request is answered; the page requests are sent
\* one at a time (each after the one before it was answered), in the order
\* of the candidates, at most one per candidate and none for a candidate
\* without page id; the call returns one result per candidate, in the order
\* of the candidates, with the empty extract for a candidate without page id
\* or whose page request failed.
C33_Enrichment ==
    \A c \in Callers :
        (calls[c].pc # "idle" /\ calls[c].tool = "search_wikipedia") =>
            LET call == calls[c]
                candidates == wiki_search(call.resp)
                fetched == call.fetched
            IN /\ call.stage = "wiki_search" => fetched = <<>>
               /\ \A i, j \in 1..Len(fetched) : i < j => fetched[i] < fetched[j]
               /\ \A i \in 1..Len(fetched) :
                     /\ fetched[i] \in 1..Len(candidates)
                     /\ candidates[fetched[i]].pageid # None
                     /\ i < Len(fetched) => fetched[i] <= Len(call.details)
               /\ call.pc = "return" =>
                     LET result == ToolResult(call)
                     IN /\ Len(result) = Len(candidates)
                        /\ \A i \in 1..Len(candidates) :
                              /\ result[i].title = candidates[i].title
                              /\ result[i].pageid = candidates[i].pageid
                              /\ (candidates[i].pageid # None) <=>
                                    (\E k \in 1..Len(fetched) : fetched[k] = i)
                              /\ (\/ candidates[i].pageid = None
                                  \/ RequestResult("wiki_get_page", call.details[i]) = <<>>)
                                      => result[i].extract = EmptyStr

\* search_wikipedia returns two results after two page requests, the first
\* of which was refused and the second answered with an extract
C33_Witness ==
    \E c \in Callers :
        /\ calls[c].pc = "return"
        /\ calls[c].tool = "search_wikipedia"
        /\ calls[c].fetched = <<1, 2>>
        /\ calls[c].details[1] = Status(Forbidden)
        /\ Len(ToolResult(calls[c])) = 2
        /\ ToolResult(calls[c])[1].extract = EmptyStr
        /\ ToolResult(calls[c])[2].extract = Extract1

\* C34 - Defensive defaults: every item of the Wikipedia answer and every
\* entry of the arXiv answer yields a result, in which a missing title is
\* "Untitled", missing authors are "Unknown authors" and a missing abstract
\* is the empty string; no title, authors or abstract is None.
C34_Defaults ==
    last.op = "generate_answer" =>
        LET wiki_results == last.args[1]
            arxiv_results == last.args[2]
            items == last.args[4]
            entries == last.args[5]
        IN /\ Len(wiki_results) = Len(items)
           /\ Len(arxiv_results) = Len(entries)
           /\ \A i \in 1..Len(items) :
                 wiki_results[i].title = Get(items[i], "title", "Untitled")
           /\ \A i \in 1..Len(entries) :
                 /\ arxiv_results[i].title = Get(entries[i], "title", "Untitled")
                 /\ arxiv_results[i].authors =
                        IF Get(entries[i], "authors", <<>>) = <<>>
                        THEN <<"Unknown authors">> ELSE entries[i].authors
                 /\ arxiv_results[i].abstract = Get(entries[i], "summary", EmptyStr)

\* C35 - First committer wins: no two persisted messages ever share a
\* (thread id, index); and a save that computed its indices from a maximum
\* another save on the thread has committed past since, ends with an error
\* and writes nothing.
C35_FirstCommitterWins ==
    /\ [](\A a, b \in messages :
            (a.thread_id = b.thread_id /\ a.message_index = b.message_index) => a = b)
    /\ [][\A s \in TurnSlots :
            (/\ turns[s].pc = "selected"
             /\ turns'[s] # turns[s]
             /\ turns[s].existing_count < Len(turns[s].msgs)
             /\ turns[s].max_index < MaxIndex(turns[s].thread_id))
            => /\ turns'[s] = IdleTurn
               /\ last'.op = "save_messages_to_db" /\ last'.ret = "raise"
               /\ messages' = messages]_vars

\* one of two saves that read the same maximum has committed its rows and
\* the other has raised on its first INSERT
C35_Witness ==
    /\ last.op = "save_messages_to_db" /\ last.ret = "raise"
    /\ last.n_arg > last.n_before
    /\ last.failed_at = 1
    /\ \E r \in messages : r.thread_id = last.thread_id /\ r.message_index = last.n_before

\* C36 - Strict propagation: a turn whose read of the stored messages
\* failed ends with an error; and, turns run one after another, a turn that
\* returned a reply which is not an error has stored the submitted user
\* message as the newest message of its thread.
C36_StrictRead ==
    last.op = "chat" =>
        /\ last.read_failed => last.ret = "error"
        /\ last.ret # "error" =>
              /\ ExistingCount(last.thread_id) = last.n_stored + 1
              /\ \E r \in RowsOf(last.thread_id) :
                    /\ r.message_index = MaxIndex(last.thread_id)
                    /\ r.role = "user"
                    /\ r.content = last.message

\* C37 - Referential integrity: the thread id of every persisted message
\* is the id of a stored thread record.
C37_NoOrphans == \A r \in messages : Exists(r.thread_id)

\* C38 - rename-thread on a stored thread changes the title of that thread
\* and nothing else: its preview, message_count, created_at and updated_at,
\* every other thread and every message stay as they were, and the thread
\* read after it has the new title.
C38_RenameFrame ==
    [][\A t \in ThreadIds :
        (last'.op = "update_thread_endpoint" /\ last'.thread_id = t /\ Exists(t)) =>
            /\ last'.ret = "ok"
            /\ messages' = messages
            /\ \A u \in ThreadIds \ {t} : threads'[u] = threads[u]
            /\ threads'[t] = [threads[t] EXCEPT !.title = last'.title]
            /\ Len(get_thread(t)') = 1
            /\ get_thread(t)'[1] = [Columns(threads[t]) EXCEPT !.title = last'.title]]_vars

\* a thread with stored messages, a preview and a message count was renamed
C38_Witness ==
    /\ last.op = "update_thread_endpoint"
    /\ last.ret = "ok"
    /\ last.title \in RenameTitles
    /\ threads[last.thread_id].title = last.title
    /\ threads[last.thread_id].title # ChatTitle
    /\ threads[last.thread_id].message_count > 0
    /\ threads[last.thread_id].preview # EmptyStr
    /\ RowsOf(last.thread_id) # {}

\* C8 - Termination: every turn that was started returns, having run no
\* more steps than the graph has nodes.
C8_Termination ==
    \A s \in Slots :
        (turns[s].pc # "idle") ~>
            (turns[s].pc = "idle" /\ last.op = "chat" /\ Len(last.steps) <= Cardinality(Nodes))

\* a turn returned after three steps while the language model was failing
C8_Witness ==
    /\ last.op = "chat"
    /\ last.llm_down
    /\ Len(last.steps) = 3

====
